---- MODULE Spec2Model ----
(***************************************************************************)
(* Model of the authentication core of todo-rs:                            *)
(*   - jwtverifier (JwtVerifier::verify, fetch_jwt, verify_jwt),           *)
(*   - the server auth filter with_jwt with its LRU identity cache,        *)
(*   - the user_info provisioning handler and the MongoStore user          *)
(*     operations (mongo_result, get_user, create_user),                   *)
(*   - return_error, the mapping of rejections to HTTP replies.            *)
(***************************************************************************)
EXTENDS Integers, Sequences, FiniteSets, TLC

(***************************************************************************)
(* Bounds of the model.                                                    *)
(***************************************************************************)
\* number of HTTP requests the server handles in one run (they may overlap)
MaxReq == 2
\* capacity handed to UserCache::new
CacheCapacity == 1
\* number of seconds the clock may advance during a run
MaxTick == 1
\* Unix time at which the run starts
Now0 == 100
\* number of create_user calls in the store-interface specification
MaxCreate == 3

(***************************************************************************)
(* Results: Ok(v) / Err(e) of Rust, and Option.                            *)
(***************************************************************************)
Ok(v) == [ok |-> TRUE, val |-> v]
Err(e) == [ok |-> FALSE, err |-> e]
Some(v) == [some |-> TRUE, v |-> v]
None == [some |-> FALSE]

(***************************************************************************)
(* Signing keys and key sets (JwkSet).  A key has a kid, a key family      *)
(* (kty) and its key material; the private half of material m produces     *)
(* the signatures that verify under m.                                     *)
(***************************************************************************)
K1 == [kid |-> "k1", kty |-> "RSA", material |-> "m1"]
K2 == [kid |-> "k2", kty |-> "RSA", material |-> "m2"]
K3 == [kid |-> "k3", kty |-> "EC", material |-> "m3"]
AllKeys == {K1, K2, K3}
KeySets == SUBSET AllKeys

\* JwkSet::find: the key with the given kid, if any
JwkFind(jwks, kid) ==
    IF \E k \in jwks : k.kid = kid
    THEN Some(CHOOSE k \in jwks : k.kid = kid)
    ELSE None

(***************************************************************************)
(* Tokens.  A well-formed token has three parts: a header (alg, kid), a    *)
(* payload (sub, aud, exp) and a signature made with header.alg by the     *)
(* holder of key material signedBy ("forged": by nobody in AllKeys).       *)
(***************************************************************************)
NoKid == "nokid"
Algs == {"RS256", "RS384", "ES256"}
Auds == {"todos", "userinfo"}
RequiredAud == "todos"
ExtIds == {"e1", "e2", "e3"}
ExpValues == {Now0 - 61, Now0 - 60, Now0 - 1, Now0, Now0 + 1}

Token(wf, kid, alg, by, aud, exp, sub) ==
    [wellformed |-> wf, kid |-> kid, alg |-> alg, signedBy |-> by,
     aud |-> aud, exp |-> exp, sub |-> sub]

MalformedJwt == Token(FALSE, NoKid, "RS256", "forged", {}, Now0, "e1")

AllTokens ==
    {MalformedJwt} \cup
    { Token(TRUE, kid, alg, by, aud, exp, sub) :
        kid \in {"k1", "k2", "k3", NoKid}, alg \in Algs,
        by \in {"m1", "m2", "m3", "forged"}, aud \in SUBSET Auds,
        exp \in ExpValues, sub \in {"e1"} }

\* the claims encoded in the payload of a token
TokenClaims(jwt) == [sub |-> jwt.sub, aud |-> jwt.aud, exp |-> jwt.exp]

\* Algorithm::family
AlgFamily(alg) == IF alg = "ES256" THEN "EC" ELSE "RSA"

\* Validation::new(Algorithm::RS256): the default leeway of jsonwebtoken
Leeway == 60

\* JwtDecode with the audience check demanding that the token's audience
\* list is exactly the required audience
JwtDecode_AudExact(jwt, jwk, aud, t) ==
    IF jwk.kty # AlgFamily("RS256") THEN Err("InvalidAlgorithm")
    ELSE IF jwt.alg # "RS256" THEN Err("InvalidAlgorithm")
    ELSE IF jwt.signedBy # jwk.material THEN Err("InvalidSignature")
    ELSE IF jwt.exp < t - Leeway THEN Err("ExpiredSignature")
    ELSE IF jwt.aud # {aud} THEN Err("InvalidAudience")
    ELSE Ok(TokenClaims(jwt))

\* JwtDecode with the expiry comparison off by one second
JwtDecode_ExpOffByOne(jwt, jwk, aud, t) ==
    IF jwk.kty # AlgFamily("RS256") THEN Err("InvalidAlgorithm")
    ELSE IF jwt.alg # "RS256" THEN Err("InvalidAlgorithm")
    ELSE IF jwt.signedBy # jwk.material THEN Err("InvalidSignature")
    ELSE IF jwt.exp <= t - Leeway THEN Err("ExpiredSignature")
    ELSE IF aud \notin jwt.aud THEN Err("InvalidAudience")
    ELSE Ok(TokenClaims(jwt))

\* JwtDecode validating the audience before the expiry
JwtDecode_AudFirst(jwt, jwk, aud, t) ==
    IF jwk.kty # AlgFamily("RS256") THEN Err("InvalidAlgorithm")
    ELSE IF jwt.alg # "RS256" THEN Err("InvalidAlgorithm")
    ELSE IF jwt.signedBy # jwk.material THEN Err("InvalidSignature")
    ELSE IF aud \notin jwt.aud THEN Err("InvalidAudience")
    ELSE IF jwt.exp < t - Leeway THEN Err("ExpiredSignature")
    ELSE Ok(TokenClaims(jwt))

\* jsonwebtoken::decode with Validation::new(RS256) and set_audience(&[aud]):
\* key family, header algorithm, signature, then exp (with leeway), then aud
JwtDecode(jwt, jwk, aud, t) ==
    IF jwk.kty # AlgFamily("RS256") THEN Err("InvalidAlgorithm")
    ELSE IF jwt.alg # "RS256" THEN Err("InvalidAlgorithm")
    ELSE IF jwt.signedBy # jwk.material THEN Err("InvalidSignature")
    ELSE IF jwt.exp < t - Leeway THEN Err("ExpiredSignature")
    ELSE IF aud \notin jwt.aud THEN Err("InvalidAudience")
    ELSE Ok(TokenClaims(jwt))

\* verify_jwt(jwt, jwks, aud) evaluated at Unix time t
verify_jwt(jwt, jwks, aud, t) ==
    IF ~jwt.wellformed THEN Err("InvalidToken")
    ELSE IF jwt.kid = NoKid THEN Err("kid not found in jwt header")
    ELSE IF ~JwkFind(jwks, jwt.kid).some THEN Err("jwk not found")
    ELSE JwtDecode(jwt, JwkFind(jwks, jwt.kid).v, aud, t)

(***************************************************************************)
(* JwtVerifier.  The filter holds one verifier and hands a clone of it to  *)
(* every request; verify takes the clone by value (mut self).              *)
(***************************************************************************)
\* JwtVerifier::new(domain).use_cache(value).build()
JwtVerifierNew(value) == [jwks_cache |-> None, use_cache |-> value]

\* #[derive(Clone)]: a clone copies the fields of the verifier it is made from
JwtVerifierClone(v) == [jwks_cache |-> v.jwks_cache, use_cache |-> v.use_cache]

\* JwtVerifier::verify, first half: does this call go to the discovery endpoint?
VerifyNeedsFetch(v) == ~(v.use_cache /\ v.jwks_cache.some)

\* JwtVerifier::verify, the None arm: self.jwks_cache = Some(jwks.clone())
VerifyStoreJwks(v, jwks) ==
    IF v.use_cache THEN [v EXCEPT !.jwks_cache = Some(jwks)] ELSE v

(***************************************************************************)
(* Errors of the server crate and their HTTP replies.                      *)
(***************************************************************************)
Errors == {"NotFound", "Unauthorized", "InvalidToken", "DatabaseOperationFailed"}

\* impl Display for Error
ErrorToString(e) ==
    CASE e = "NotFound" -> "Not found"
      [] e = "Unauthorized" -> "Unauthorized"
      [] e = "InvalidToken" -> "Invalid token"
      [] OTHER -> "Database: Failed"

\* return_error, for a rejection that carries a crate Error
return_error(e) ==
    CASE e = "NotFound" -> [code |-> 404, message |-> ErrorToString(e)]
      [] e = "Unauthorized" -> [code |-> 401, message |-> ErrorToString(e)]
      [] e = "InvalidToken" -> [code |-> 401, message |-> ErrorToString(e)]
      [] OTHER -> [code |-> 500, message |-> "Failed"]

(***************************************************************************)
(* Authorization header.                                                   *)
(***************************************************************************)
Header(scheme, jwt) == [scheme |-> scheme, jwt |-> jwt]

\* token_from_header: no header, a non-UTF-8 value or a value that does not
\* start with "Bearer " is Err(Unauthorized)
token_from_header(h) ==
    IF h.scheme = "absent" THEN Err("Unauthorized")
    ELSE IF h.scheme = "binary" THEN Err("Unauthorized")
    ELSE IF h.scheme # "Bearer" THEN Err("Unauthorized")
    ELSE Ok(h.jwt)

\* with_jwt line 65: the rejection for a header without a bearer token
with_jwt_header_rejection(e) == "InvalidToken"

\* with_jwt_verify_rejection telling an unknown key from the other failures
with_jwt_verify_rejection_Leaky(e) ==
    IF e = "jwk not found" THEN "Unauthorized" ELSE "InvalidToken"

\* with_jwt lines 33-36: the rejection for a failed verification
with_jwt_verify_rejection(e) == "InvalidToken"

(***************************************************************************)
(* Users and the Users collection of MongoStore (documents in insertion    *)
(* order).                                                                 *)
(***************************************************************************)
User(id, external_id, name, email, tenant_id) ==
    [id |-> id, external_id |-> external_id, name |-> name, email |-> email,
     tenant_id |-> tenant_id]

\* User::new with the two Uuid::new_v4 values it is built from: the tenant id
\* is drawn first (argument of User::new), the user id inside User::new
UserNew(external_id, name, email, uuid) ==
    User(uuid + 1, external_id, name, email, uuid)

Names == {"n1", "n2"}
Emails == {"a@x"}

\* Users already in the database when the server starts
SeedUsers == << User(2, "e1", "n1", "a@x", 1), User(4, "e2", "n2", "a@x", 3) >>
FirstUuid == 5

UserContext(user) == [tenant_id |-> user.tenant_id, user_id |-> user.id]

RECURSIVE FindFirst(_, _, _)
FindFirst(col, ext, i) ==
    IF i > Len(col) THEN None
    ELSE IF col[i].external_id = ext THEN Some(col[i])
    ELSE FindFirst(col, ext, i + 1)

\* Collection::find_one with the filter {external_id}: the first matching
\* document, or a driver error when the database cannot be reached
find_one(col, ext, dbok) ==
    IF ~dbok THEN Err("mongodb") ELSE Ok(FindFirst(col, ext, 1))

\* mongo_result
mongo_result(result) ==
    IF ~result.ok THEN Err("DatabaseOperationFailed")
    ELSE IF ~result.val.some THEN Err("NotFound")
    ELSE Ok(Some(result.val.v))

\* MongoStore::get_user
get_user(col, ext, dbok) == mongo_result(find_one(col, ext, dbok))

\* MongoStore::create_user: the new collection and the result
create_user(col, external_id, name, email, uuid, dbok) ==
    LET user == UserNew(external_id, name, email, uuid) IN
    IF ~dbok THEN [col |-> col, res |-> Err("DatabaseOperationFailed")]
    ELSE [col |-> Append(col, user), res |-> Ok(user)]

(***************************************************************************)
(* UserCache: an LruCache<String, User>, most recently used entry first.   *)
(***************************************************************************)
Entry(k, v) == [key |-> k, user |-> v]

RECURSIVE LruIndex(_, _, _)
LruIndex(c, k, i) ==
    IF i > Len(c) THEN 0
    ELSE IF c[i].key = k THEN i
    ELSE LruIndex(c, k, i + 1)

LruRemove(c, i) == SubSeq(c, 1, i - 1) \o SubSeq(c, i + 1, Len(c))

\* LruGet dropping the least recently used entry when it misses
LruGet_DropOnMiss(c, k) ==
    LET i == LruIndex(c, k, 1) IN
    IF i = 0 THEN [val |-> None, cache |-> SubSeq(c, 1, Len(c) - 1)]
    ELSE [val |-> Some(c[i].user), cache |-> <<c[i]>> \o LruRemove(c, i)]

\* LruGet leaving the entry it hits where it is
LruGet_NoPromote(c, k) ==
    LET i == LruIndex(c, k, 1) IN
    IF i = 0 THEN [val |-> None, cache |-> c]
    ELSE [val |-> Some(c[i].user), cache |-> c]

\* LruGet not finding the entry that is least recently used
LruGet_MissOldest(c, k) ==
    LET i == LruIndex(c, k, 1) IN
    IF i = 0 \/ i = Len(c) THEN [val |-> None, cache |-> c]
    ELSE [val |-> Some(c[i].user), cache |-> <<c[i]>> \o LruRemove(c, i)]

\* LruCache::get: the value, and the cache with the entry made most recent
LruGet(c, k) ==
    LET i == LruIndex(c, k, 1) IN
    IF i = 0 THEN [val |-> None, cache |-> c]
    ELSE [val |-> Some(c[i].user), cache |-> <<c[i]>> \o LruRemove(c, i)]

\* the keys the cache holds
LruKeys(c) == { c[i].key : i \in 1 .. Len(c) }

\* LruPut writing the new value into the evicted entry without changing its key
LruPut_StaleKey(c, k, v, cap) ==
    LET i == LruIndex(c, k, 1) IN
    IF i # 0 THEN <<Entry(k, v)>> \o LruRemove(c, i)
    ELSE IF Len(c) >= cap THEN <<Entry(c[Len(c)].key, v)>> \o SubSeq(c, 1, cap - 1)
    ELSE <<Entry(k, v)>> \o c

\* LruCache::put: replace or insert as most recent, evicting the least
\* recently used entry when the cache is full
LruPut(c, k, v, cap) ==
    LET i == LruIndex(c, k, 1) IN
    IF i # 0 THEN <<Entry(k, v)>> \o LruRemove(c, i)
    ELSE IF Len(c) >= cap THEN <<Entry(k, v)>> \o SubSeq(c, 1, cap - 1)
    ELSE <<Entry(k, v)>> \o c

(***************************************************************************)
(* Inputs of the server specification.                                     *)
(***************************************************************************)
GoodJwt(sub) == Token(TRUE, "k1", "RS256", "m1", Auds, Now0 + 1, sub)

\* bearer tokens of the requests: a good one for each external id, one
\* signed by the key the provider rotates to, one forged
ReqTokens ==
    { GoodJwt(e) : e \in ExtIds } \cup
    { Token(TRUE, "k2", "RS256", "m2", {RequiredAud}, Now0 + 1, "e2"),
      Token(TRUE, "k1", "RS256", "forged", {RequiredAud}, Now0 + 1, "e1") }

\* subjects of the user_info requests: one the store holds, one it does not
UserInfoSubs == {"e1", "e3"}

ReqHeaders ==
    { Header("Bearer", t) : t \in ReqTokens } \cup
    { Header("absent", MalformedJwt), Header("Basic", MalformedJwt) }

\* total number of requests accepted in one run
MaxServed == 3

VARIABLES
    vin,          \* SpecVerify: the arguments of one verify_jwt call
    vout,         \* SpecVerify: its result, or NotCalled
    now,          \* the clock, in whole seconds of Unix time; the server
                  \* specification serves its requests within one second,
                  \* SpecVerify ranges over the instants
    jwks_remote,  \* the key set served at {domain}/.well-known/jwks.json
    jwt_verifier, \* the JwtVerifier captured by the with_jwt filter
    fetches,      \* number of GETs of the discovery endpoint so far
    user_col,     \* MongoStore.user_col: the Users collection
    next_uuid,    \* the next value of Uuid::new_v4
    cache,        \* the shared UserCache (Arc<Mutex<UserCache>>)
    reqs,         \* the requests in flight, one per slot
    served,       \* number of requests accepted so far
    emitted,      \* every (external id, UserContext) the filter has emitted
    evicted,      \* the external ids the UserCache has evicted so far
    scall,        \* SpecStore: the last call on the store and its result
    lru_cap,      \* SpecCache: the capacity the UserCache was built with
    lru_used,     \* SpecCache: for each key, when the cache last used it
    lru_clock,    \* SpecCache: number of cache operations so far
    login,        \* SpecLogin: the device-authorization flow of auth::login
    cred_file,    \* SpecToken: the credentials file in the home directory
    gt,           \* SpecToken: the running or last get_token call
    objects,      \* MemStore.objects: the todos by id
    todo_owner,   \* for each todo id, the context add_todo was called with
    next_todo_id, \* the next value of Uuid::new_v4 in Todo::new
    mcall,        \* SpecMem: the last call on the MemStore and its result
    mongo,        \* SpecMem: MongoStore.todo_col, the Todos collection, and
                  \* the result of the same call on the MongoStore
    http,         \* SpecRouter: the replies counted and the last exchange
    creds,        \* SpecCred: the Credentials value the caller holds
    cmd,          \* SpecClient: the last login or logout command
    cache_lock,   \* SpecLock: the holder of the UserCache mutex, 0 if free
    lk            \* SpecLock: the resolutions in flight, one per slot

NotCalled == [ok |-> FALSE, err |-> "not called"]

vvars == <<vin, vout>>
svars == <<now, jwks_remote, jwt_verifier, fetches, user_col, next_uuid,
           cache, reqs, served, emitted, evicted, scall>>
NoCall == [op |-> "none"]
\* the variables of the command-line client and of the cache harness
yvars == <<objects, todo_owner, next_todo_id, mcall, mongo, http, creds,
           cmd, cache_lock, lk>>
xvars == <<lru_cap, lru_used, lru_clock, login, cred_file, gt, yvars>>
vars == <<vin, vout, now, jwks_remote, jwt_verifier, fetches, user_col,
          next_uuid, cache, reqs, served, emitted, evicted, scall, xvars>>

\* no cache operation counted yet
CacheIdle == lru_cap = 0 /\ lru_used = << >> /\ lru_clock = 0
\* no login under way
LoginIdle == login = [pc |-> "idle"]
\* no credentials file, no get_token call
TokenIdle ==
    /\ cred_file = [exists |-> FALSE]
    /\ gt = [pc |-> "idle"]

\* an empty MemStore nobody has called, no HTTP exchange
TodoIdle ==
    /\ objects = << >>
    /\ todo_owner = << >>
    /\ next_todo_id = 1
    /\ mcall = NoCall
    /\ mongo = [todo_col |-> << >>, res |-> Err("none")]
    /\ http = [pc |-> "idle"]
\* no Credentials value held
CredIdle == creds = [pc |-> "idle"]
\* the UserCache mutex free, no resolution observed at lock level
LockIdle == cache_lock = 0 /\ lk = << >>
\* no command run
CmdIdle == cmd = [pc |-> "idle"]
YIdle == TodoIdle /\ CredIdle /\ CmdIdle /\ LockIdle

Slots == 1 .. MaxReq

Pending == [tag |-> "pending"]
Emit(ctx) == [tag |-> "ctx", ctx |-> ctx]
Reject(e) == [tag |-> "reject", error |-> e]
Reply(user) == [tag |-> "json", user |-> user]
Emitted(ext, ctx) == [ext |-> ext, ctx |-> ctx]

Idle == [kind |-> "none", pc |-> "idle"]

\* the state of a with_jwt request that has just read its headers
WithJwtReq(h, v) ==
    [kind |-> "with_jwt", pc |-> "start", headers |-> h, verifier |-> v,
     jwt |-> h.jwt, sub |-> "", verr |-> "", nfetch |-> 0, nverify |-> 0,
     lookup |-> "none", out |-> Pending]

\* the state of a user_info request that has just received its claims
UserInfoReq(sub) ==
    [kind |-> "user_info", pc |-> "get_user", sub |-> sub, name |-> "",
     email |-> "", lookup |-> "none", provisioning |-> FALSE,
     created |-> FALSE, out |-> Pending]

\* a slot is free when it has no request or its request has been answered;
\* a new request takes the first free slot
Free(rs, r) == rs[r].pc \in {"idle", "done"}
FirstFree(rs, r) == Free(rs, r) /\ \A q \in 1 .. r - 1 : ~Free(rs, q)

Done(rq, out) == [rq EXCEPT !.pc = "done", !.out = out]

\* with_jwt_match answering a failed lookup with a context of its own making
with_jwt_match_Fabricate(result) ==
    IF result.ok /\ result.val.some THEN Emit(UserContext(result.val.v))
    ELSE Emit([tenant_id |-> 0, user_id |-> 0])

\* with_jwt lines 48-63: the match on the result of store.get_user
with_jwt_match(result) ==
    IF result.ok /\ result.val.some THEN Emit(UserContext(result.val.v))
    ELSE IF result.ok THEN Reject("InvalidToken")
    ELSE Reject("InvalidToken")

\* user_info_match taking a store error for "no such user"
user_info_match_ErrAsNone(result) ==
    IF result.ok /\ result.val.some THEN "reply" ELSE "provision"

\* user_info lines 49-60: the arm taken for the result of store.get_user
user_info_match(result) ==
    IF result.ok /\ result.val.some THEN "reply"
    ELSE IF result.ok THEN "provision"
    ELSE "reject"

\* with_jwt lines 33-47: verify_jwt on the key set, then the cache lookup.
\* Nothing in this stretch awaits, so it runs in one step.
WithJwtResolve(rq, jwks, t, c) ==
    LET res == verify_jwt(rq.jwt, jwks, RequiredAud, t)
        rq1 == [rq EXCEPT !.nverify = @ + 1] IN
    IF ~res.ok
    THEN [req |-> Done([rq1 EXCEPT !.verr = res.err],
                       Reject(with_jwt_verify_rejection(res.err))),
          cache |-> c, emit |-> {}]
    ELSE LET sub == res.val.sub
             got == LruGet(c, sub) IN
         IF got.val.some
         THEN [req |-> Done([rq1 EXCEPT !.sub = sub, !.lookup = "hit"],
                            Emit(UserContext(got.val.v))),
               cache |-> got.cache,
               emit |-> {Emitted(sub, UserContext(got.val.v))}]
         ELSE [req |-> [rq1 EXCEPT !.pc = "get_user", !.sub = sub],
               cache |-> got.cache, emit |-> {}]

(***************************************************************************)
(* The server specification.                                               *)
(***************************************************************************)
Init ==
    /\ vin = [jwt |-> MalformedJwt, jwks |-> {}, now |-> Now0]
    /\ vout = NotCalled
    /\ now = Now0
    /\ jwks_remote = {K1}
    /\ jwt_verifier \in { JwtVerifierNew(b) : b \in BOOLEAN }
    /\ fetches = 0
    /\ user_col = SeedUsers
    /\ next_uuid = FirstUuid
    /\ cache = << >>
    /\ reqs = [r \in Slots |-> Idle]
    /\ served = 0
    /\ emitted = {}
    /\ evicted = {}
    /\ scall = NoCall
    /\ CacheIdle /\ LoginIdle /\ TokenIdle /\ YIdle

\* with_jwt lines 15-36: a request arrives; the filter clones the verifier,
\* reads the bearer token and calls verify on the clone
WithJwtStart(r, h) ==
    /\ FirstFree(reqs, r)
    /\ served < MaxServed
    /\ served' = served + 1
    /\ LET tok == token_from_header(h)
           rq == WithJwtReq(h, JwtVerifierClone(jwt_verifier)) IN
       IF ~tok.ok
       THEN /\ reqs' = [reqs EXCEPT
                  ![r] = Done(rq, Reject(with_jwt_header_rejection(tok.err)))]
            /\ UNCHANGED <<cache, emitted>>
       ELSE IF VerifyNeedsFetch(rq.verifier)
       THEN /\ reqs' = [reqs EXCEPT ![r] = [rq EXCEPT !.pc = "fetch_jwt"]]
            /\ UNCHANGED <<cache, emitted>>
       ELSE LET n == WithJwtResolve(rq, rq.verifier.jwks_cache.v, now, cache) IN
            /\ reqs' = [reqs EXCEPT ![r] = n.req]
            /\ cache' = n.cache
            /\ emitted' = emitted \cup n.emit
    /\ UNCHANGED xvars
    /\ UNCHANGED <<vin, vout, now, jwks_remote, jwt_verifier, fetches,
                   user_col, next_uuid, evicted, scall>>

\* verify_fetch_failed leaving an empty key set in the verifier
verify_fetch_failed_StoreEmpty(rq) ==
    Done([rq EXCEPT !.verr = "fetch", !.verifier.jwks_cache = Some({})],
         Reject(with_jwt_verify_rejection("fetch")))

\* JwtVerifier::verify lines 43 and 48 with fetch_jwt lines 55: `?` on the
\* one GET returns its error from verify before line 44 is reached
verify_fetch_failed(rq) ==
    Done([rq EXCEPT !.verr = "fetch"],
         Reject(with_jwt_verify_rejection("fetch")))

\* JwtVerifier::verify lines 43-50 and fetch_jwt: the GET of the discovery
\* document returns, with the served key set or with an error
WithJwtFetched(r, netok) ==
    /\ reqs[r].kind = "with_jwt"
    /\ reqs[r].pc = "fetch_jwt"
    /\ fetches' = fetches + 1
    /\ LET rq == [reqs[r] EXCEPT !.nfetch = @ + 1] IN
       IF ~netok
       THEN /\ reqs' = [reqs EXCEPT ![r] = verify_fetch_failed(rq)]
            /\ UNCHANGED <<cache, emitted>>
       ELSE LET rq1 == [rq EXCEPT
                          !.verifier = VerifyStoreJwks(@, jwks_remote)]
                n == WithJwtResolve(rq1, jwks_remote, now, cache) IN
            /\ reqs' = [reqs EXCEPT ![r] = n.req]
            /\ cache' = n.cache
            /\ emitted' = emitted \cup n.emit
    /\ UNCHANGED xvars
    /\ UNCHANGED <<vin, vout, now, jwks_remote, jwt_verifier, user_col,
                   next_uuid, served, evicted, scall>>

\* with_jwt lines 48-63: store.get_user returns
WithJwtGotUser(r, dbok) ==
    /\ reqs[r].kind = "with_jwt"
    /\ reqs[r].pc = "get_user"
    /\ LET rq == reqs[r]
           raw == find_one(user_col, rq.sub, dbok)
           result == get_user(user_col, rq.sub, dbok)
           out == with_jwt_match(result)
           seen == IF ~raw.ok THEN "error"
                   ELSE IF raw.val.some THEN "found" ELSE "absent" IN
       /\ reqs' = [reqs EXCEPT ![r] = Done([rq EXCEPT !.lookup = seen], out)]
       /\ cache' = IF result.ok /\ result.val.some
                   THEN LruPut(cache, rq.sub, result.val.v, CacheCapacity)
                   ELSE cache
       /\ evicted' = evicted \cup (LruKeys(cache) \ LruKeys(cache'))
       /\ emitted' = IF out.tag = "ctx"
                     THEN emitted \cup {Emitted(rq.sub, out.ctx)}
                     ELSE emitted
    /\ UNCHANGED xvars
    /\ UNCHANGED <<vin, vout, now, jwks_remote, jwt_verifier, fetches,
                   user_col, next_uuid, served, scall>>

\* user_info lines 42-49: a request with verified claims arrives
UserInfoStart(r, sub) ==
    /\ FirstFree(reqs, r)
    /\ served < MaxServed
    /\ served' = served + 1
    /\ reqs' = [reqs EXCEPT ![r] = UserInfoReq(sub)]
    /\ UNCHANGED xvars
    /\ UNCHANGED <<vin, vout, now, jwks_remote, jwt_verifier, fetches,
                   user_col, next_uuid, cache, emitted, evicted, scall>>

\* user_info lines 49-60: the handler resumes after the await it is at:
\* store.get_user, fetch_user_info or store.create_user
UserInfoResume(r, dbok, netok, name, email) ==
    /\ reqs[r].kind = "user_info"
    /\ reqs[r].pc \in {"get_user", "fetch_user_info", "create_user"}
    /\ LET rq == reqs[r] IN
       CASE rq.pc = "get_user" ->
              LET raw == find_one(user_col, rq.sub, dbok)
                  result == get_user(user_col, rq.sub, dbok)
                  arm == user_info_match(result)
                  seen == IF ~raw.ok THEN "error"
                          ELSE IF raw.val.some THEN "found" ELSE "absent"
                  rq1 == [rq EXCEPT !.lookup = seen] IN
              /\ reqs' = [reqs EXCEPT ![r] =
                    IF arm = "reply" THEN Done(rq1, Reply(result.val.v))
                    ELSE IF arm = "provision"
                    THEN [rq1 EXCEPT !.pc = "fetch_user_info",
                                     !.provisioning = TRUE]
                    ELSE Done(rq1, Reject("InvalidToken"))]
              /\ UNCHANGED <<user_col, next_uuid>>
         [] rq.pc = "fetch_user_info" ->
              /\ reqs' = [reqs EXCEPT ![r] =
                    IF netok
                    THEN [rq EXCEPT !.pc = "create_user", !.name = name,
                                    !.email = email]
                    ELSE Done(rq, Reject("InvalidToken"))]
              /\ UNCHANGED <<user_col, next_uuid>>
         [] rq.pc = "create_user" ->
              LET c == create_user(user_col, rq.sub, rq.name, rq.email,
                                   next_uuid, dbok) IN
              /\ user_col' = c.col
              /\ next_uuid' = next_uuid + 2
              /\ reqs' = [reqs EXCEPT ![r] =
                    IF c.res.ok
                    THEN Done([rq EXCEPT !.created = TRUE], Reply(c.res.val))
                    ELSE Done(rq, Reject(c.res.err))]
    /\ UNCHANGED xvars
    /\ UNCHANGED <<vin, vout, now, jwks_remote, jwt_verifier, fetches, cache,
                   served, emitted, evicted, scall>>

\* the identity provider rotates its signing key
RotateKeys ==
    /\ jwks_remote = {K1}
    /\ jwks_remote' = {K2}
    /\ UNCHANGED xvars
    /\ UNCHANGED <<vin, vout, now, jwt_verifier, fetches, user_col, next_uuid,
                   cache, reqs, served, emitted, evicted, scall>>

Next ==
    \/ \E r \in Slots, h \in ReqHeaders : WithJwtStart(r, h)
    \/ \E r \in Slots, netok \in BOOLEAN : WithJwtFetched(r, netok)
    \/ \E r \in Slots, dbok \in BOOLEAN : WithJwtGotUser(r, dbok)
    \/ \E r \in Slots, sub \in UserInfoSubs : UserInfoStart(r, sub)
    \/ \E r \in Slots, dbok \in BOOLEAN, netok \in BOOLEAN,
          name \in Names, email \in Emails :
          UserInfoResume(r, dbok, netok, name, email)
    \/ RotateKeys

Spec == Init /\ [][Next]_vars

(***************************************************************************)
(* SpecVerify: verify_jwt applied once to any token, key set and time.     *)
(***************************************************************************)
InitVerify ==
    /\ vin \in [jwt : AllTokens, jwks : KeySets, now : Now0 .. Now0 + MaxTick]
    /\ vout = NotCalled
    /\ now = vin.now
    /\ jwks_remote = vin.jwks
    /\ jwt_verifier = JwtVerifierNew(FALSE)
    /\ fetches = 0
    /\ user_col = << >>
    /\ next_uuid = FirstUuid
    /\ cache = << >>
    /\ reqs = [r \in Slots |-> Idle]
    /\ served = 0
    /\ emitted = {}
    /\ evicted = {}
    /\ scall = NoCall
    /\ CacheIdle /\ LoginIdle /\ TokenIdle /\ YIdle

VerifyJwt ==
    /\ vout = NotCalled
    /\ vout' = verify_jwt(vin.jwt, vin.jwks, RequiredAud, vin.now)
    /\ UNCHANGED xvars
    /\ UNCHANGED <<vin, svars, scall>>

NextVerify == VerifyJwt

SpecVerify == InitVerify /\ [][NextVerify]_vars

(***************************************************************************)
(* SpecStore: the user operations of MongoStore driven through the         *)
(* TodoStore interface, as any holder of the Arc<dyn TodoStore> may call   *)
(* them.                                                                   *)
(***************************************************************************)
InitStore ==
    /\ vin = [jwt |-> MalformedJwt, jwks |-> {}, now |-> Now0]
    /\ vout = NotCalled
    /\ now = Now0
    /\ jwks_remote = {K1}
    /\ jwt_verifier = JwtVerifierNew(FALSE)
    /\ fetches = 0
    /\ user_col = << >>
    /\ next_uuid = FirstUuid
    /\ cache = << >>
    /\ reqs = [r \in Slots |-> Idle]
    /\ served = 0
    /\ emitted = {}
    /\ evicted = {}
    /\ scall = NoCall
    /\ CacheIdle /\ LoginIdle /\ TokenIdle /\ YIdle

\* TodoStore::create_user on MongoStore
StoreCreateUser(ext, name, email, dbok) ==
    /\ next_uuid < FirstUuid + 2 * MaxCreate
    /\ LET c == create_user(user_col, ext, name, email, next_uuid, dbok) IN
       /\ user_col' = c.col
       /\ scall' = [op |-> "create_user", ext |-> ext, name |-> name,
                    email |-> email, res |-> c.res]
    /\ next_uuid' = next_uuid + 2
    /\ UNCHANGED xvars
    /\ UNCHANGED <<vin, vout, now, jwks_remote, jwt_verifier, fetches, cache,
                   reqs, served, emitted, evicted>>

\* TodoStore::get_user on MongoStore
StoreGetUser(ext, dbok) ==
    /\ scall' = [op |-> "get_user", ext |-> ext,
                 res |-> get_user(user_col, ext, dbok)]
    /\ UNCHANGED xvars
    /\ UNCHANGED <<vin, vout, now, jwks_remote, jwt_verifier, fetches,
                   user_col, next_uuid, cache, reqs, served, emitted, evicted>>

NextStore ==
    \/ \E ext \in ExtIds, name \in Names, email \in Emails, dbok \in BOOLEAN :
          StoreCreateUser(ext, name, email, dbok)
    \/ \E ext \in ExtIds, dbok \in BOOLEAN : StoreGetUser(ext, dbok)

SpecStore == InitStore /\ [][NextStore]_vars

(***************************************************************************)
(* SpecCache: a UserCache of any capacity under the two operations with_jwt *)
(* performs on it, cache.get(&external_user_id) and                         *)
(* cache.put(external_user_id, user), in any order and for any key.         *)
(***************************************************************************)
\* largest capacity a UserCache is built with, and number of operations
MaxCapacity == 2
MaxCacheOps == 5

\* the user with_jwt caches under an external id
CacheUser(k) == User(2, k, "n1", "a@x", 1)

\* UserCache::new(capacity), capacity a NonZeroUsize
InitCache ==
    /\ vin = [jwt |-> MalformedJwt, jwks |-> {}, now |-> Now0]
    /\ vout = NotCalled
    /\ now = Now0
    /\ jwks_remote = {K1}
    /\ jwt_verifier = JwtVerifierNew(FALSE)
    /\ fetches = 0
    /\ user_col = << >>
    /\ next_uuid = FirstUuid
    /\ cache = << >>
    /\ reqs = [r \in Slots |-> Idle]
    /\ served = 0
    /\ emitted = {}
    /\ evicted = {}
    /\ scall = NoCall
    /\ lru_cap \in 1 .. MaxCapacity
    /\ lru_used = [k \in ExtIds |-> 0]
    /\ lru_clock = 0
    /\ LoginIdle /\ TokenIdle /\ YIdle

\* with_jwt line 40: cache.get(&external_user_id)
CacheGet(k) ==
    /\ lru_clock < MaxCacheOps
    /\ lru_clock' = lru_clock + 1
    /\ LET got == LruGet(cache, k) IN
       /\ cache' = got.cache
       /\ lru_used' = IF got.val.some
                      THEN [lru_used EXCEPT ![k] = lru_clock + 1]
                      ELSE lru_used
    /\ UNCHANGED <<vin, vout, now, jwks_remote, jwt_verifier, fetches,
                   user_col, next_uuid, reqs, served, emitted, evicted,
                   scall, lru_cap, login, cred_file, gt, yvars>>

\* with_jwt lines 51-55: cache.put(external_user_id, user)
CachePut(k) ==
    /\ lru_clock < MaxCacheOps
    /\ lru_clock' = lru_clock + 1
    /\ cache' = LruPut(cache, k, CacheUser(k), lru_cap)
    /\ lru_used' = [lru_used EXCEPT ![k] = lru_clock + 1]
    /\ evicted' = evicted \cup (LruKeys(cache) \ LruKeys(cache'))
    /\ UNCHANGED <<vin, vout, now, jwks_remote, jwt_verifier, fetches,
                   user_col, next_uuid, reqs, served, emitted, scall,
                   lru_cap, login, cred_file, gt, yvars>>

NextCache ==
    \/ \E k \in ExtIds : CacheGet(k)
    \/ \E k \in ExtIds : CachePut(k)

SpecCache == InitCache /\ [][NextCache]_vars

(***************************************************************************)
(* SpecLogin: auth::login, the device-authorization flow of the            *)
(* command-line client. Time is counted in whole seconds since             *)
(* start_instant; a call of the token endpoint and a sleep may each take   *)
(* a second more than nothing or than asked.                               *)
(***************************************************************************)
\* largest expires_in and interval of a DeviceAuthResponse, and number of
\* polls of one run that are answered in no time
MaxExpires == 4
MaxInterval == 1
MaxPolls == 4
\* longest a call of the token endpoint takes, and longest oversleep
MaxDelay == 1

\* TokenResponse, of which login and get_token read two fields
TokenResponse(access_token, refresh_token) ==
    [access_token |-> access_token, refresh_token |-> refresh_token]

\* what `.send().and_then(|res| res.json::<TokenResponse>())` yields: a
\* reqwest error of the send or of the decoding of the body, or a
\* TokenResponse; every field of it is optional, so any JSON object decodes
PollResults ==
    { Err("send"), Err("decode"),
      Ok(TokenResponse(None, None)),
      Ok(TokenResponse(Some("abc"), Some("r1"))),
      Ok(TokenResponse(Some("xyz"), None)) }

DeviceCodeExpired == "Device code has expired"

\* login_expired one second late
login_expired_Late(elapsed, expires_in) == elapsed > expires_in

\* login_expired giving the device code twice its lifetime
login_expired_Twice(elapsed, expires_in) == elapsed >= 2 * expires_in

\* login line 53: Instant::now() >= start_instant + expiry_duration
login_expired(elapsed, expires_in) == elapsed >= expires_in

\* login_match taking a response without access_token for a failure
login_match_PendingIsError(resp) ==
    IF ~resp.ok THEN "return_err"
    ELSE IF resp.val.access_token.some THEN "return_ok"
    ELSE "return_err"

\* login_match polling again after a transport error
login_match_RetryOnError(resp) ==
    IF ~resp.ok THEN "sleep"
    ELSE IF resp.val.access_token.some THEN "return_ok"
    ELSE "sleep"

\* login lines 71-86: the match on the result of a poll
login_match(resp) ==
    IF ~resp.ok THEN "return_err"
    ELSE IF resp.val.access_token.some THEN "return_ok"
    ELSE "sleep"

\* the flow before login is called
LoginNew ==
    [pc |-> "idle", session |-> FALSE, expires_in |-> 0, interval |-> 0,
     elapsed |-> 0, polls |-> 0, waits |-> 0, pending |-> 0,
     denied_at |-> 0, shown |-> FALSE, browser |-> "none",
     last |-> Err("none"), out |-> Err("none")]

InitLogin ==
    /\ vin = [jwt |-> MalformedJwt, jwks |-> {}, now |-> Now0]
    /\ vout = NotCalled
    /\ now = Now0
    /\ jwks_remote = {K1}
    /\ jwt_verifier = JwtVerifierNew(FALSE)
    /\ fetches = 0
    /\ user_col = << >>
    /\ next_uuid = FirstUuid
    /\ cache = << >>
    /\ reqs = [r \in Slots |-> Idle]
    /\ served = 0
    /\ emitted = {}
    /\ evicted = {}
    /\ scall = NoCall
    /\ CacheIdle /\ TokenIdle /\ YIdle
    /\ login = LoginNew

\* the variables login leaves alone
nonlogin == <<vin, vout, now, jwks_remote, jwt_verifier, fetches, user_col,
              next_uuid, cache, reqs, served, emitted, evicted, scall,
              lru_cap, lru_used, lru_clock, cred_file, gt, yvars>>

\* what the device code request yields: an error of send, a body that is
\* not a DeviceAuthResponse, or a DeviceAuthResponse
DeviceRequests == {"send", "decode", "ok"}

\* login_request returning the error of a browser that did not open
login_request_BrowserFatal(l, req, expires_in, interval, opened) ==
    IF req # "ok" THEN [l EXCEPT !.pc = "done", !.out = Err(req)]
    ELSE IF ~opened
    THEN [l EXCEPT !.pc = "done", !.session = TRUE, !.shown = TRUE,
                   !.browser = "failed", !.out = Err("open")]
    ELSE [l EXCEPT !.pc = "loop", !.session = TRUE, !.shown = TRUE,
                   !.browser = "opened", !.expires_in = expires_in,
                   !.interval = interval]

\* login lines 19-50: the device code request; on an error of send or of
\* the decoding login returns it; otherwise the verification URI is
\* printed, open::that is called and its result dropped, and
\* start_instant is taken
login_request(l, req, expires_in, interval, opened) ==
    IF req # "ok" THEN [l EXCEPT !.pc = "done", !.out = Err(req)]
    ELSE [l EXCEPT !.pc = "loop", !.session = TRUE, !.shown = TRUE,
                   !.browser = IF opened THEN "opened" ELSE "failed",
                   !.expires_in = expires_in, !.interval = interval]

LoginRequest(req, expires_in, interval, opened) ==
    /\ login.pc = "idle"
    /\ login' = login_request(login, req, expires_in, interval, opened)
    /\ UNCHANGED nonlogin

\* login lines 52-69: the head of the loop; the poll is sent unless the
\* device code has expired
LoginLoop ==
    /\ login.pc = "loop"
    /\ login' =
         IF login_expired(login.elapsed, login.expires_in)
         THEN [login EXCEPT !.pc = "done", !.out = Err(DeviceCodeExpired)]
         ELSE [login EXCEPT !.pc = "poll", !.polls = @ + 1]
    /\ UNCHANGED nonlogin

\* bodies of the token endpoint's answers: authorization_pending and
\* access_denied are both sent with an error status and an object with the
\* members error and error_description
AccessDenied == [kind |-> "error", error |-> "access_denied"]

\* res.json::<TokenResponse>() after send(): send does not turn an error
\* status into an Err, and every field of TokenResponse is optional and
\* unknown members are ignored, so an error object decodes to a response
\* without tokens
token_response_json(body) ==
    IF body.kind = "garbage" THEN Err("decode")
    ELSE IF body.kind = "tokens"
    THEN Ok(TokenResponse(Some("abc"), Some("r1")))
    ELSE Ok(TokenResponse(None, None))

\* login lines 69-86: the flow after the answer resp that took d seconds
login_polled(l0, resp, d) ==
    LET arm == login_match(resp)
        l == [l0 EXCEPT !.elapsed = @ + d, !.last = resp] IN
    IF arm = "return_ok" THEN [l EXCEPT !.pc = "done", !.out = resp]
    ELSE IF arm = "return_err" THEN [l EXCEPT !.pc = "done", !.out = resp]
    ELSE [l EXCEPT !.pc = "sleep", !.waits = @ + 1, !.pending = @ + 1]

\* login lines 69-86: the token endpoint has answered after d seconds.
\* An answer takes time: of the polls of one run the first MaxPolls may be
\* answered within the second they are sent in, every later one takes a
\* second.
LoginPolled(resp, d) ==
    /\ login.pc = "poll"
    /\ login.polls > MaxPolls => d >= 1
    /\ login' = login_polled(login, resp, d)
    /\ UNCHANGED nonlogin

\* login lines 61-86: the user has refused the request and the token
\* endpoint answers the poll with status 403 and an access_denied body;
\* denied_at remembers the poll that was so answered
LoginDenied(d) ==
    /\ login.pc = "poll"
    /\ login.polls > MaxPolls => d >= 1
    /\ login' = [login_polled(login, token_response_json(AccessDenied), d)
                   EXCEPT !.denied_at = login.polls]
    /\ UNCHANGED nonlogin

\* login lines 84-86: the sleep of `interval` seconds is over
LoginWoke(d) ==
    /\ login.pc = "sleep"
    /\ login' = [login EXCEPT !.pc = "loop",
                              !.elapsed = @ + login.interval + d]
    /\ UNCHANGED nonlogin

NextLogin ==
    \/ \E req \in DeviceRequests, e \in 0 .. MaxExpires,
          i \in 0 .. MaxInterval, opened \in BOOLEAN :
          LoginRequest(req, e, i, opened)
    \/ LoginLoop
    \/ \E resp \in PollResults, d \in 0 .. MaxDelay : LoginPolled(resp, d)
    \/ \E d \in 0 .. MaxDelay : LoginDenied(d)
    \/ \E d \in 0 .. MaxDelay : LoginWoke(d)

SpecLogin == InitLogin /\ [][NextLogin]_vars

\* login is one thread of blocking calls: the request and every poll return
\* (reqwest's blocking client gives up after its timeout), and every sleep
\* ends, so the step the flow is at is eventually taken
SpecLoginLive == SpecLogin /\ WF_vars(NextLogin)

(***************************************************************************)
(* SpecToken: get_token of the command-line client over the credentials    *)
(* file, one call per invocation of the client.                            *)
(***************************************************************************)
\* number of invocations of the client followed
MaxRuns == 2

\* an access token as decode_claims_without_verification sees it: the
\* number of parts between its dots, whether the second part is unpadded
\* base64url, and the integer exp of the JSON payload, if it has one
AccessToken(id, parts, b64, exp) ==
    [id |-> id, parts |-> parts, b64 |-> b64, exp |-> exp]

\* access tokens a credentials file may hold, and the one the token
\* endpoint issues
StoredAccessTokens ==
    { AccessToken("old", 3, TRUE, Some(e)) :
        e \in {Now0 - 1, Now0, Now0 + 1} } \cup
    { AccessToken("opaque", 1, TRUE, None),
      AccessToken("padded", 3, FALSE, Some(Now0 + 1)),
      AccessToken("noexp", 3, TRUE, None) }
NewAccessToken == AccessToken("new", 3, TRUE, Some(Now0 + MaxTick + 1))

\* Credentials.data, of which get_token reads and writes two keys
CredData(access_token, refresh_token) ==
    [access_token |-> access_token, refresh_token |-> refresh_token]

\* the credentials file: absent, unreadable as JSON, or holding data
CredFile(exists, valid, data) ==
    [exists |-> exists, valid |-> valid, data |-> data]
NoCredFile == CredFile(FALSE, FALSE, CredData(None, None))
CredFiles ==
    { NoCredFile } \cup
    { CredFile(TRUE, v, CredData(a, r)) :
        v \in BOOLEAN,
        a \in {None} \cup { Some(t) : t \in StoredAccessTokens },
        r \in {None, Some("r1")} }

\* Credentials::load: no home directory, no file (empty data), a file that
\* cannot be parsed, or the data of the file
CredLoad(file, homeok) ==
    IF ~homeok THEN Err("Home directory not found")
    ELSE IF ~file.exists THEN Ok(CredData(None, None))
    ELSE IF ~file.valid THEN Err("serde_json")
    ELSE Ok(file.data)

\* Credentials::save: fs::write of the serialized data. A failed write
\* leaves the old file or, having truncated it, an unreadable one.
CredSave(file, data, written) ==
    IF written = "ok" THEN [file |-> CredFile(TRUE, TRUE, data), res |-> Ok("unit")]
    ELSE IF written = "truncated"
    THEN [file |-> CredFile(TRUE, FALSE, CredData(None, None)),
          res |-> Err("io")]
    ELSE [file |-> file, res |-> Err("io")]
WriteOutcomes == {"ok", "failed", "truncated"}

\* decode_claims_without_verification: the split at the dots, the
\* base64url decoding of the second part, the JSON decoding into Claims
decode_claims_without_verification(token) ==
    IF token.parts # 3 THEN Err("Token format is incorrect")
    ELSE IF ~token.b64 THEN Err("base64")
    ELSE IF ~token.exp.some THEN Err("serde_json")
    ELSE Ok([exp |-> token.exp.v])

\* is_token_expired taking a token it cannot decode for a fresh one
is_token_expired_UndecodableFresh(token, t) ==
    LET claims == decode_claims_without_verification(token) IN
    IF ~claims.ok THEN FALSE ELSE claims.val.exp < t

\* is_token_expired taking a token that expires this second for expired
is_token_expired_Inclusive(token, t) ==
    LET claims == decode_claims_without_verification(token) IN
    IF ~claims.ok THEN TRUE ELSE claims.val.exp <= t

\* is_token_expired
is_token_expired(token, t) ==
    LET claims == decode_claims_without_verification(token) IN
    IF ~claims.ok THEN TRUE ELSE claims.val.exp < t

\* get_token_match answering with the access token when only it is stored
get_token_match_AccessOnly(data, t) ==
    IF data.access_token.some /\ data.refresh_token.some
    THEN IF is_token_expired(data.access_token.v, t) THEN "refresh"
         ELSE "stored"
    ELSE IF data.access_token.some THEN "stored"
    ELSE "none"

\* get_token lines 71-91: the arm taken for the loaded credentials
get_token_match(data, t) ==
    IF data.access_token.some /\ data.refresh_token.some
    THEN IF is_token_expired(data.access_token.v, t) THEN "refresh"
         ELSE "stored"
    ELSE "none"

\* what refresh_access_token returns: a reqwest error of the send or of the
\* decoding of the body, or the TokenResponse (an error body of the token
\* endpoint decodes to one without tokens; a refresh without rotation
\* answers with an access token only)
\* (the access token of the endpoint may be an opaque one, which is not a
\* JWT)
OpaqueAccessToken == AccessToken("opaque2", 1, TRUE, None)
RefreshResults ==
    { Err("send"), Err("decode"),
      Ok(TokenResponse(None, None)),
      Ok(TokenResponse(Some(NewAccessToken), None)),
      Ok(TokenResponse(Some(NewAccessToken), Some("r2"))),
      Ok(TokenResponse(Some(OpaqueAccessToken), Some("r2"))),
      Ok(TokenResponse(Some(OpaqueAccessToken), Some("r3"))) }

\* get_token lines 74-77: `?` on the refresh, then the two unwraps
get_token_unwrap(resp) ==
    IF ~resp.ok THEN "return_err"
    ELSE IF ~resp.val.access_token.some THEN "panic"
    ELSE IF ~resp.val.refresh_token.some THEN "panic"
    ELSE "save"

\* get_token_adds keeping the refresh token it had loaded
get_token_adds_AccessOnly(credentials, token_response) ==
    [credentials EXCEPT !.access_token = token_response.access_token]

\* get_token lines 79-81: the two adds, each overwriting the stored value
get_token_adds(credentials, token_response) ==
    [credentials EXCEPT !.access_token = token_response.access_token,
                        !.refresh_token = token_response.refresh_token]

\* get_token_refreshed returning the access token it had loaded
get_token_refreshed_Stale(old_access_token, new_access_token) ==
    Ok(Some(old_access_token))

\* get_token line 85: Ok(Some(new_access_token))
get_token_refreshed(old_access_token, new_access_token) ==
    Ok(Some(new_access_token))

\* no call of get_token yet
TokenNew ==
    [pc |-> "idle", runs |-> 0, calls |-> 0, writes |-> 0,
     loaded |-> CredData(None, None), load_ok |-> FALSE,
     file0 |-> NoCredFile, now0 |-> Now0, arm |-> "none",
     resp |-> Err("none"), panicked |-> FALSE, saved |-> FALSE,
     sent |-> None, received |-> None,
     out |-> Err("none")]

InitToken ==
    /\ vin = [jwt |-> MalformedJwt, jwks |-> {}, now |-> Now0]
    /\ vout = NotCalled
    /\ now = Now0
    /\ jwks_remote = {K1}
    /\ jwt_verifier = JwtVerifierNew(FALSE)
    /\ fetches = 0
    /\ user_col = << >>
    /\ next_uuid = FirstUuid
    /\ cache = << >>
    /\ reqs = [r \in Slots |-> Idle]
    /\ served = 0
    /\ emitted = {}
    /\ evicted = {}
    /\ scall = NoCall
    /\ CacheIdle /\ LoginIdle /\ YIdle
    /\ cred_file \in CredFiles
    /\ gt = [TokenNew EXCEPT
               !.received = IF cred_file.valid
                            THEN cred_file.data.refresh_token ELSE None]

\* the variables get_token leaves alone
nontoken == <<vin, vout, jwks_remote, jwt_verifier, fetches, user_col,
              next_uuid, cache, reqs, served, emitted, evicted, scall,
              lru_cap, lru_used, lru_clock, login, yvars>>

\* get_token lines 67-75 and 86-91: the client is invoked; load, the match
\* on the two tokens and is_token_expired; the refresh call is sent or the
\* function returns
GetTokenCalled(homeok) ==
    /\ gt.pc \in {"idle", "done"}
    /\ gt.runs < MaxRuns
    /\ LET credentials == CredLoad(cred_file, homeok)
           arm == IF credentials.ok
                  THEN get_token_match(credentials.val, now) ELSE "load_err"
           g == [TokenNew EXCEPT !.runs = gt.runs + 1, !.file0 = cred_file,
                                 !.now0 = now, !.received = gt.received,
                                 !.load_ok = credentials.ok, !.arm = arm,
                                 !.loaded = IF credentials.ok
                                            THEN credentials.val
                                            ELSE CredData(None, None)] IN
       gt' =
         IF arm = "load_err"
         THEN [g EXCEPT !.pc = "done", !.out = credentials]
         ELSE IF arm = "refresh"
         THEN [g EXCEPT !.pc = "refresh", !.calls = 1,
                        !.sent = credentials.val.refresh_token]
         ELSE IF arm = "stored"
         THEN [g EXCEPT !.pc = "done",
                        !.out = Ok(Some(credentials.val.access_token.v))]
         ELSE [g EXCEPT !.pc = "done", !.out = Ok(None)]
    /\ UNCHANGED <<now, cred_file>>
    /\ UNCHANGED nontoken

\* get_token lines 74-85: refresh_access_token has returned; the unwraps,
\* the two adds and the save
GetTokenRefreshed(resp, written) ==
    /\ gt.pc = "refresh"
    /\ LET step == get_token_unwrap(resp)
           g == [gt EXCEPT !.pc = "done", !.resp = resp] IN
       IF step = "return_err"
       THEN /\ gt' = [g EXCEPT !.out = resp]
            /\ cred_file' = cred_file
       ELSE IF step = "panic"
       THEN /\ gt' = [g EXCEPT !.panicked = TRUE]
            /\ cred_file' = cred_file
       ELSE LET data == get_token_adds(gt.loaded, resp.val)
                s == CredSave(cred_file, data, written) IN
            /\ cred_file' = s.file
            /\ gt' = [g EXCEPT
                        !.writes = 1,
                        !.saved = s.res.ok,
                        !.received = IF s.res.ok
                                     THEN resp.val.refresh_token ELSE @,
                        !.out = IF s.res.ok
                                THEN get_token_refreshed(
                                        gt.loaded.access_token.v,
                                        resp.val.access_token.v)
                                ELSE s.res]
    /\ UNCHANGED now
    /\ UNCHANGED nontoken

\* a second passes between or during invocations
TokenTick ==
    /\ now < Now0 + MaxTick
    /\ now' = now + 1
    /\ UNCHANGED <<cred_file, gt>>
    /\ UNCHANGED nontoken

NextToken ==
    \/ \E homeok \in BOOLEAN : GetTokenCalled(homeok)
    \/ \E resp \in RefreshResults, written \in WriteOutcomes :
          GetTokenRefreshed(resp, written)
    \/ TokenTick

SpecToken == InitToken /\ [][NextToken]_vars

(***************************************************************************)
(* SpecMem: the todo operations of the in-memory store, called by users    *)
(* of two tenants in any order.                                            *)
(***************************************************************************)
\* number of todos ever added
MaxTodos == 2

\* no server request, no verify_jwt call, no store call
ServerIdle ==
    /\ vin = [jwt |-> MalformedJwt, jwks |-> {}, now |-> Now0]
    /\ vout = NotCalled
    /\ now = Now0
    /\ jwks_remote = {K1}
    /\ jwt_verifier = JwtVerifierNew(FALSE)
    /\ fetches = 0
    /\ user_col = << >>
    /\ next_uuid = FirstUuid
    /\ cache = << >>
    /\ reqs = [r \in Slots |-> Idle]
    /\ served = 0
    /\ emitted = {}
    /\ evicted = {}
    /\ scall = NoCall

\* the variables of the server, of verify_jwt and of the client
nonyvars == <<vvars, svars, lru_cap, lru_used, lru_clock, login, cred_file,
              gt>>

\* the callers: two users of tenant 1 and a user of tenant 2 whose user id
\* is that of a user of tenant 1
Ctx(tenant_id, user_id) == [tenant_id |-> tenant_id, user_id |-> user_id]
TodoCtxs == {Ctx(1, 1), Ctx(1, 2), Ctx(2, 1)}
Tasks == {"a", "b"}
TodoIds == 1 .. MaxTodos

Todo(id, tenant_id, user_id, task, completed) ==
    [id |-> id, tenant_id |-> tenant_id, user_id |-> user_id, task |-> task,
     completed |-> completed]
NewTodo(task, completed) == [task |-> task, completed |-> completed]
UpdateTodo(task, completed) == [task |-> task, completed |-> completed]
\* the bodies the callers send: a new task not yet done; an update of the
\* task, of the flag, of both or of neither
NewTodos == {NewTodo("a", FALSE)}
UpdateTodos ==
    {UpdateTodo(t, c) : t \in {None, Some("b")}, c \in {None, Some(TRUE)}}

\* Todo::new; uuid is the value Uuid::new_v4 returns
TodoNew(tenant_id, user_id, new_todo, uuid) ==
    Todo(uuid, tenant_id, user_id, new_todo.task, new_todo.completed)

\* HashMap::insert, HashMap::remove and HashMap::values
MapInsert(m, k, v) ==
    [x \in DOMAIN m \cup {k} |-> IF x = k THEN v ELSE m[x]]
MapRemove(m, k) == [x \in DOMAIN m \ {k} |-> m[x]]
MapValues(m) == {m[x] : x \in DOMAIN m}

\* MemStore::add_todo
mem_add_todo(objs, ctx, new_todo, uuid) ==
    LET todo == TodoNew(ctx.tenant_id, ctx.user_id, new_todo, uuid) IN
    [objs |-> MapInsert(objs, todo.id, todo), res |-> Ok("unit")]

\* MemStore::get_todo
mem_get_todo(objs, ctx, id) ==
    IF id \in DOMAIN objs
    THEN IF objs[id].user_id # ctx.user_id
            \/ objs[id].tenant_id # ctx.tenant_id
         THEN Err("Unauthorized")
         ELSE Ok(Some(objs[id]))
    ELSE Err("NotFound")

\* get_todos listing every todo of the caller's tenant
mem_get_todos_TenantOnly(objs, ctx) ==
    Ok({todo \in MapValues(objs) : todo.tenant_id = ctx.tenant_id})

\* MemStore::get_todos; the order of the Vec is that of the HashMap's
\* iteration, which is unspecified: the result is the set of its elements
mem_get_todos(objs, ctx) ==
    Ok({todo \in MapValues(objs) :
          todo.tenant_id = ctx.tenant_id /\ todo.user_id = ctx.user_id})

\* update_todo writing the fields before it looks at the owner
mem_update_todo_WriteFirst(objs, ctx, id, update_todo) ==
    IF id \in DOMAIN objs
    THEN LET todo == objs[id]
             upd == [todo EXCEPT
                       !.completed = IF update_todo.completed.some
                                     THEN update_todo.completed.v ELSE @,
                       !.task = IF update_todo.task.some
                                THEN update_todo.task.v ELSE @] IN
         IF todo.user_id # ctx.user_id \/ todo.tenant_id # ctx.tenant_id
         THEN [objs |-> MapInsert(objs, id, upd), res |-> Err("Unauthorized")]
         ELSE [objs |-> MapInsert(objs, id, upd), res |-> Ok(Some(upd))]
    ELSE [objs |-> objs, res |-> Err("NotFound")]

\* update_todo clearing the flag of a request that does not carry one
mem_update_todo_ResetAbsent(objs, ctx, id, update_todo) ==
    IF id \in DOMAIN objs
    THEN LET todo == objs[id] IN
         IF todo.user_id # ctx.user_id \/ todo.tenant_id # ctx.tenant_id
         THEN [objs |-> objs, res |-> Err("Unauthorized")]
         ELSE LET upd == [todo EXCEPT
                            !.completed = IF update_todo.completed.some
                                          THEN update_todo.completed.v
                                          ELSE FALSE,
                            !.task = IF update_todo.task.some
                                     THEN update_todo.task.v ELSE @] IN
              [objs |-> MapInsert(objs, id, upd), res |-> Ok(Some(upd))]
    ELSE [objs |-> objs, res |-> Err("NotFound")]

\* MemStore::update_todo
mem_update_todo(objs, ctx, id, update_todo) ==
    IF id \in DOMAIN objs
    THEN LET todo == objs[id] IN
         IF todo.user_id # ctx.user_id \/ todo.tenant_id # ctx.tenant_id
         THEN [objs |-> objs, res |-> Err("Unauthorized")]
         ELSE LET upd == [todo EXCEPT
                            !.completed = IF update_todo.completed.some
                                          THEN update_todo.completed.v ELSE @,
                            !.task = IF update_todo.task.some
                                     THEN update_todo.task.v ELSE @] IN
              [objs |-> MapInsert(objs, id, upd), res |-> Ok(Some(upd))]
    ELSE [objs |-> objs, res |-> Err("NotFound")]

\* delete_todo comparing the tenant only
mem_delete_todo_TenantOnly(objs, ctx, id) ==
    IF id \in DOMAIN objs /\ objs[id].tenant_id = ctx.tenant_id
    THEN [objs |-> MapRemove(objs, id), res |-> Ok(Some(objs[id]))]
    ELSE [objs |-> objs, res |-> Err("NotFound")]

\* MemStore::delete_todo
mem_delete_todo(objs, ctx, id) ==
    IF id \in DOMAIN objs
       /\ objs[id].tenant_id = ctx.tenant_id
       /\ objs[id].user_id = ctx.user_id
    THEN [objs |-> MapRemove(objs, id), res |-> Ok(Some(objs[id]))]
    ELSE [objs |-> objs, res |-> Err("NotFound")]

\* the Todos collection: its documents in the order of their insertion
\* (the collection has no unique index on the field id)
Remove(col, i) == [j \in 1 .. Len(col) - 1 |-> IF j < i THEN col[j] ELSE col[j + 1]]
\* the filter doc! { "id", "tenant_id", "user_id" }
todo_filter(ctx, id, d) ==
    d.id = id /\ d.tenant_id = ctx.tenant_id /\ d.user_id = ctx.user_id
\* the position of the first document the filter matches, 0 if there is none
first_match(col, ctx, id) ==
    IF \E i \in 1 .. Len(col) : todo_filter(ctx, id, col[i])
    THEN CHOOSE i \in 1 .. Len(col) :
           /\ todo_filter(ctx, id, col[i])
           /\ \A j \in 1 .. i - 1 : ~todo_filter(ctx, id, col[j])
    ELSE 0

\* the update_todo! macro: the document under $set holds the fields the
\* request carries
update_todo_doc(update_todo) ==
    {f \in {"task", "completed"} : update_todo[f].some}
\* $set on one document
mongo_set(d, update_todo) ==
    LET doc == update_todo_doc(update_todo) IN
    [d EXCEPT !.task = IF "task" \in doc THEN update_todo.task.v ELSE @,
              !.completed = IF "completed" \in doc
                            THEN update_todo.completed.v ELSE @]

\* MongoStore::add_todo on a database that answers
mongo_add_todo(col, ctx, new_todo, uuid) ==
    [col |-> Append(col, TodoNew(ctx.tenant_id, ctx.user_id, new_todo, uuid)),
     res |-> Ok("unit")]

\* MongoStore::get_todo: find_one under the filter, then mongo_result
mongo_get_todo(col, ctx, id) ==
    LET i == first_match(col, ctx, id) IN
    mongo_result(Ok(IF i = 0 THEN None ELSE Some(col[i])))

\* MongoStore::get_todos
mongo_get_todos(col, ctx) ==
    Ok({col[i] : i \in {j \in 1 .. Len(col) :
                          /\ col[j].tenant_id = ctx.tenant_id
                          /\ col[j].user_id = ctx.user_id}})

\* MongoStore::update_todo: find_one_and_update with no options, which
\* returns the document as it was before the update. A server older than
\* 5.0 refuses an empty $set document (emptyok is FALSE), a newer one takes
\* it for an update of nothing.
mongo_update_todo(col, ctx, id, update_todo, emptyok) ==
    LET i == first_match(col, ctx, id) IN
    IF update_todo_doc(update_todo) = {} /\ ~emptyok
    THEN [col |-> col, res |-> mongo_result(Err("'$set' is empty"))]
    ELSE IF i = 0 THEN [col |-> col, res |-> mongo_result(Ok(None))]
    ELSE [col |-> [col EXCEPT ![i] = mongo_set(@, update_todo)],
          res |-> mongo_result(Ok(Some(col[i])))]

\* MongoStore::delete_todo: find_one_and_delete, then mongo_result
mongo_delete_todo(col, ctx, id) ==
    LET i == first_match(col, ctx, id) IN
    IF i = 0 THEN [col |-> col, res |-> mongo_result(Ok(None))]
    ELSE [col |-> Remove(col, i), res |-> mongo_result(Ok(Some(col[i])))]

\* an empty Todos collection nobody has called
MongoNew == [todo_col |-> << >>, res |-> Err("none")]
\* the collection after a call and the result of the call
MongoCalled(col, res) == [todo_col |-> col, res |-> res]

MemCall(op, ctx, id, arg, res) ==
    [op |-> op, ctx |-> ctx, id |-> id, arg |-> arg, res |-> res]

\* MemStore::new on a path that holds no file
InitMem ==
    /\ ServerIdle
    /\ CacheIdle /\ LoginIdle /\ TokenIdle /\ CredIdle /\ CmdIdle /\ LockIdle
    /\ objects = << >>
    /\ todo_owner = << >>
    /\ next_todo_id = 1
    /\ mcall = NoCall
    /\ mongo = MongoNew
    /\ http = [pc |-> "idle"]

nonmem == <<nonyvars, http, creds, cmd, cache_lock, lk>>

MemAddTodo(ctx, new_todo) ==
    /\ next_todo_id <= MaxTodos
    /\ LET r == mem_add_todo(objects, ctx, new_todo, next_todo_id) IN
       /\ objects' = r.objs
       /\ mcall' = MemCall("add_todo", ctx, next_todo_id, new_todo, r.res)
    /\ LET m == mongo_add_todo(mongo.todo_col, ctx, new_todo, next_todo_id) IN
       mongo' = MongoCalled(m.col, m.res)
    /\ todo_owner' = MapInsert(todo_owner, next_todo_id, ctx)
    /\ next_todo_id' = next_todo_id + 1
    /\ UNCHANGED nonmem

MemGetTodo(ctx, id) ==
    /\ mcall' = MemCall("get_todo", ctx, id, None,
                      mem_get_todo(objects, ctx, id))
    /\ mongo' = MongoCalled(mongo.todo_col,
                            mongo_get_todo(mongo.todo_col, ctx, id))
    /\ UNCHANGED <<objects, todo_owner, next_todo_id, nonmem>>

MemGetTodos(ctx) ==
    /\ mcall' = MemCall("get_todos", ctx, 0, None,
                      mem_get_todos(objects, ctx))
    /\ mongo' = MongoCalled(mongo.todo_col,
                            mongo_get_todos(mongo.todo_col, ctx))
    /\ UNCHANGED <<objects, todo_owner, next_todo_id, nonmem>>

MemUpdateTodo(ctx, id, update_todo, emptyok) ==
    /\ LET r == mem_update_todo(objects, ctx, id, update_todo) IN
       /\ objects' = r.objs
       /\ mcall' = MemCall("update_todo", ctx, id, update_todo, r.res)
    /\ LET m == mongo_update_todo(mongo.todo_col, ctx, id, update_todo,
                                  emptyok) IN
       mongo' = MongoCalled(m.col, m.res)
    /\ UNCHANGED <<todo_owner, next_todo_id, nonmem>>

MemDeleteTodo(ctx, id) ==
    /\ LET r == mem_delete_todo(objects, ctx, id) IN
       /\ objects' = r.objs
       /\ mcall' = MemCall("delete_todo", ctx, id, None, r.res)
    /\ LET m == mongo_delete_todo(mongo.todo_col, ctx, id) IN
       mongo' = MongoCalled(m.col, m.res)
    /\ UNCHANGED <<todo_owner, next_todo_id, nonmem>>

NextMem ==
    \/ \E ctx \in TodoCtxs, new_todo \in NewTodos : MemAddTodo(ctx, new_todo)
    \/ \E ctx \in TodoCtxs, id \in TodoIds : MemGetTodo(ctx, id)
    \/ \E ctx \in TodoCtxs : MemGetTodos(ctx)
    \/ \E ctx \in TodoCtxs, id \in TodoIds, update_todo \in UpdateTodos :
          \E emptyok \in IF update_todo_doc(update_todo) = {}
                          THEN BOOLEAN ELSE {TRUE} :
             MemUpdateTodo(ctx, id, update_todo, emptyok)
    \/ \E ctx \in TodoCtxs, id \in TodoIds : MemDeleteTodo(ctx, id)

SpecMem == InitMem /\ [][NextMem]_vars

(***************************************************************************)
(* SpecRouter: the routes of router served over a MemStore, the with_jwt   *)
(* filter handing each request a UserContext or a rejection.               *)
(***************************************************************************)
\* number of POST /todos each user is answered 201 to
MaxPosts == 2

\* what the with_jwt filter extracts for a request
AuthResults == {Ok(ctx) : ctx \in TodoCtxs} \cup {Err("InvalidToken")}

HttpReply(status, body) == [status |-> status, body |-> body]

\* routes::add_todo: the handler prints the user and replies 201 Created;
\* it makes no call on the store
add_todo(user, objs, new_todo) ==
    [objs |-> objs, res |-> Ok(HttpReply(201, {}))]

\* routes::get_todos
get_todos(user, objs) ==
    LET todos == mem_get_todos(objs, user) IN
    [objs |-> objs,
     res |-> IF todos.ok THEN Ok(HttpReply(200, todos.val))
             ELSE Err(todos.err)]

\* routes::get_todo
get_todo(id, user, objs) ==
    LET todo == mem_get_todo(objs, user, id) IN
    [objs |-> objs,
     res |-> IF todo.ok THEN Ok(HttpReply(200, {todo.val.v}))
             ELSE Err(todo.err)]

\* routes::update_todo
update_todo(id, update, user, objs) ==
    LET r == mem_update_todo(objs, user, id, update) IN
    [objs |-> r.objs,
     res |-> IF r.res.ok THEN Ok(HttpReply(200, {r.res.val.v}))
             ELSE Err(r.res.err)]

\* routes::delete_todo
delete_todo(id, user, objs) ==
    LET r == mem_delete_todo(objs, user, id) IN
    [objs |-> r.objs,
     res |-> IF r.res.ok THEN Ok(HttpReply(204, {})) ELSE Err(r.res.err)]

\* router line 63: .recover(return_error) turns a rejection into a reply
\* with the status of the error and its message, no todos in the body
Recover(res) ==
    IF res.ok THEN res.val ELSE HttpReply(return_error(res.err).code, {})

\* a route: the with_jwt filter, then the handler, then recover
Route(auth, handled, objs) ==
    IF ~auth.ok
    THEN [objs |-> objs, reply |-> Recover(Err(auth.err))]
    ELSE [objs |-> handled.objs, reply |-> Recover(handled.res)]

\* the todo a MemStore may have loaded from its file
SeedTodo == Todo(1, 1, 1, "a", FALSE)

Exchange(route, auth, id, reply) ==
    [route |-> route, auth |-> auth, id |-> id, reply |-> reply]

\* MemStore::new: the store is empty or holds the todo of its file
InitRouter ==
    /\ ServerIdle
    /\ CacheIdle /\ LoginIdle /\ TokenIdle /\ CredIdle /\ CmdIdle /\ LockIdle
    /\ \E loaded \in BOOLEAN :
          /\ objects = IF loaded THEN MapInsert(<< >>, 1, SeedTodo)
                       ELSE << >>
          /\ todo_owner = IF loaded THEN MapInsert(<< >>, 1, Ctx(1, 1))
                          ELSE << >>
          /\ next_todo_id = IF loaded THEN 2 ELSE 1
          /\ http = [pc |-> "serving", empty0 |-> ~loaded,
                     created |-> [ctx \in TodoCtxs |-> 0], deleted |-> {},
                     last |-> Exchange("none", Err("none"), 0,
                                       HttpReply(0, {}))]
    /\ mcall = NoCall
    /\ mongo = MongoNew

nonrouter == <<nonyvars, mcall, mongo, creds, cmd, cache_lock, lk>>

\* the store and the counts after an exchange
Served(route, auth, id, r) ==
    /\ objects' = r.objs
    /\ http' = [http EXCEPT
         !.last = Exchange(route, auth, id, r.reply),
         !.created = IF route = "add_todo" /\ r.reply.status = 201
                     THEN [@ EXCEPT ![auth.val] = @ + 1] ELSE @,
         !.deleted = IF route = "delete_todo" /\ r.reply.status = 204
                     THEN @ \cup {id} ELSE @]

\* POST /todos
HttpAddTodo(auth, new_todo) ==
    /\ http.pc = "serving"
    /\ auth.ok => http.created[auth.val] < MaxPosts
    /\ LET h == IF auth.ok THEN add_todo(auth.val, objects, new_todo)
                ELSE [objs |-> objects, res |-> Err(auth.err)] IN
       Served("add_todo", auth, 0, Route(auth, h, objects))
    /\ UNCHANGED <<todo_owner, next_todo_id, nonrouter>>

\* GET /todos
HttpGetTodos(auth) ==
    /\ http.pc = "serving"
    /\ LET h == IF auth.ok THEN get_todos(auth.val, objects)
                ELSE [objs |-> objects, res |-> Err(auth.err)] IN
       Served("get_todos", auth, 0, Route(auth, h, objects))
    /\ UNCHANGED <<todo_owner, next_todo_id, nonrouter>>

\* GET /todos/{id}
HttpGetTodo(auth, id) ==
    /\ http.pc = "serving"
    /\ LET h == IF auth.ok THEN get_todo(id, auth.val, objects)
                ELSE [objs |-> objects, res |-> Err(auth.err)] IN
       Served("get_todo", auth, id, Route(auth, h, objects))
    /\ UNCHANGED <<todo_owner, next_todo_id, nonrouter>>

\* PATCH /todos/{id}
HttpUpdateTodo(auth, id, update) ==
    /\ http.pc = "serving"
    /\ LET h == IF auth.ok THEN update_todo(id, update, auth.val, objects)
                ELSE [objs |-> objects, res |-> Err(auth.err)] IN
       Served("update_todo", auth, id, Route(auth, h, objects))
    /\ UNCHANGED <<todo_owner, next_todo_id, nonrouter>>

\* DELETE /todos/{id}
HttpDeleteTodo(auth, id) ==
    /\ http.pc = "serving"
    /\ LET h == IF auth.ok THEN delete_todo(id, auth.val, objects)
                ELSE [objs |-> objects, res |-> Err(auth.err)] IN
       Served("delete_todo", auth, id, Route(auth, h, objects))
    /\ UNCHANGED <<todo_owner, next_todo_id, nonrouter>>

NextRouter ==
    \/ \E auth \in AuthResults, new_todo \in NewTodos :
          HttpAddTodo(auth, new_todo)
    \/ \E auth \in AuthResults : HttpGetTodos(auth)
    \/ \E auth \in AuthResults, id \in TodoIds : HttpGetTodo(auth, id)
    \/ \E auth \in AuthResults, id \in TodoIds, update \in UpdateTodos :
          HttpUpdateTodo(auth, id, update)
    \/ \E auth \in AuthResults, id \in TodoIds : HttpDeleteTodo(auth, id)

SpecRouter == InitRouter /\ [][NextRouter]_vars

(***************************************************************************)
(* SpecCred: a caller of the file credential store: load, add, clear,      *)
(* save and delete in any order, the home directory and the file system    *)
(* answering as they may.                                                  *)
(***************************************************************************)
\* number of calls on the credential store
MaxCredOps == 4

CredKeys == {"access_token", "refresh_token"}
CredValues == {"v1", "v2"}
NoCredData == CredData(None, None)

\* CredStore::add, get, clear and keys_present of Credentials
CredAdd(data, key, value) == [data EXCEPT ![key] = Some(value)]
CredGet(data, key) == data[key]
CredClear(data) == NoCredData
keys_present(data, keys) == \A key \in keys : data[key].some

\* delete failing when there is no file to remove
CredDelete_ErrIfAbsent(file, homeok, removed) ==
    IF ~homeok THEN [file |-> file, res |-> Err("Home directory not found")]
    ELSE IF file.exists /\ removed
    THEN [file |-> NoCredFile, res |-> Ok("unit")]
    ELSE [file |-> file, res |-> Err("io")]

\* Credentials::delete: the file is removed if it exists; removed tells
\* whether fs::remove_file succeeds
CredDelete(file, homeok, removed) ==
    IF ~homeok THEN [file |-> file, res |-> Err("Home directory not found")]
    ELSE IF file.exists
    THEN IF removed THEN [file |-> NoCredFile, res |-> Ok("unit")]
         ELSE [file |-> file, res |-> Err("io")]
    ELSE [file |-> file, res |-> Ok("unit")]

CredCall(op, homeok, res) == [op |-> op, homeok |-> homeok, res |-> res]

\* Credentials::new; the home directory holds no file, a file that is not
\* JSON, or a file saved earlier
InitCred ==
    /\ ServerIdle
    /\ CacheIdle /\ LoginIdle /\ TodoIdle /\ CmdIdle /\ LockIdle
    /\ gt = [pc |-> "idle"]
    /\ cred_file \in
         {NoCredFile, CredFile(TRUE, FALSE, NoCredData),
          CredFile(TRUE, TRUE, CredData(Some("v1"), None))}
    /\ creds = [pc |-> "held", data |-> NoCredData, ops |-> 0,
                saved |-> IF cred_file.exists /\ cred_file.valid
                          THEN Some(cred_file.data) ELSE None,
                before |-> cred_file,
                last |-> CredCall("new", TRUE, Ok("unit"))]

\* the variables of the server and of the rest of the client
nonfile == <<vvars, svars, lru_cap, lru_used, lru_clock, login, gt, mongo,
            cmd>>

\* one more call, whose result is res
CredCalled(op, homeok, res, data, saved) ==
    creds' = [creds EXCEPT !.ops = @ + 1, !.data = data, !.saved = saved,
                           !.before = cred_file,
                           !.last = CredCall(op, homeok, res)]

\* let c = c.load()?: the caller replaces its value by the loaded one
CredOpLoad(homeok) ==
    /\ creds.pc = "held" /\ creds.ops < MaxCredOps
    /\ LET res == CredLoad(cred_file, homeok) IN
       CredCalled("load", homeok, res,
                  IF res.ok THEN res.val ELSE creds.data, creds.saved)
    /\ UNCHANGED <<cred_file, nonfile, objects, todo_owner, next_todo_id,
                   mcall, http, cache_lock, lk>>

CredOpAdd(key, value) ==
    /\ creds.pc = "held" /\ creds.ops < MaxCredOps
    /\ CredCalled("add", TRUE, Ok("unit"), CredAdd(creds.data, key, value),
                  creds.saved)
    /\ UNCHANGED <<cred_file, nonfile, objects, todo_owner, next_todo_id,
                   mcall, http, cache_lock, lk>>

CredOpClear ==
    /\ creds.pc = "held" /\ creds.ops < MaxCredOps
    /\ CredCalled("clear", TRUE, Ok("unit"), CredClear(creds.data),
                  creds.saved)
    /\ UNCHANGED <<cred_file, nonfile, objects, todo_owner, next_todo_id,
                   mcall, http, cache_lock, lk>>

\* Credentials::save; saved remembers the data of a save that returned Ok
\* for as long as the file is the one it wrote
CredOpSave(homeok, written) ==
    /\ creds.pc = "held" /\ creds.ops < MaxCredOps
    /\ LET r == IF homeok THEN CredSave(cred_file, creds.data, written)
                ELSE [file |-> cred_file,
                      res |-> Err("Home directory not found")] IN
       /\ cred_file' = r.file
       /\ CredCalled("save", homeok, r.res, creds.data,
                     IF r.res.ok THEN Some(creds.data)
                     ELSE IF r.file = cred_file THEN creds.saved ELSE None)
    /\ UNCHANGED <<nonfile, objects, todo_owner, next_todo_id, mcall, http,
                   cache_lock, lk>>

CredOpDelete(homeok, removed) ==
    /\ creds.pc = "held" /\ creds.ops < MaxCredOps
    /\ LET r == CredDelete(cred_file, homeok, removed) IN
       /\ cred_file' = r.file
       /\ CredCalled("delete", homeok, r.res, creds.data,
                     IF r.file = cred_file THEN creds.saved ELSE None)
    /\ UNCHANGED <<nonfile, objects, todo_owner, next_todo_id, mcall, http,
                   cache_lock, lk>>

NextCred ==
    \/ \E homeok \in BOOLEAN : CredOpLoad(homeok)
    \/ \E key \in CredKeys, value \in CredValues : CredOpAdd(key, value)
    \/ CredOpClear
    \/ \E homeok \in BOOLEAN, written \in WriteOutcomes :
          CredOpSave(homeok, written)
    \/ \E homeok \in BOOLEAN, removed \in BOOLEAN :
          CredOpDelete(homeok, removed)

SpecCred == InitCred /\ [][NextCred]_vars

(***************************************************************************)
(* SpecLock: the resolution part of with_jwt (lines 38-63) at the grain of *)
(* the UserCache mutex: a request asks for the lock, holds it for the      *)
(* statement that uses the cache, and awaits the store without it.         *)
(***************************************************************************)
LkIdle == [pc |-> "idle"]
\* a request whose token has been verified and that reaches line 40
LkReq(sub) ==
    [pc |-> "lock_get", sub |-> sub, lookup |-> "none", user |-> None,
     overtook |-> {}, out |-> Pending]
LkFree(r) == lk[r].pc \in {"idle", "done"}

\* the lookup keeping the guard when it misses
with_jwt_lookup_HoldGuard(c, sub, r) ==
    LET got == LruGet(c, sub) IN
    [hit |-> got.val.some, cache |-> got.cache,
     lock |-> IF got.val.some THEN 0 ELSE r,
     out |-> IF got.val.some THEN Emit(UserContext(got.val.v)) ELSE Pending]

\* with_jwt lines 40-45, run by the holder of the guard: if let Some(user) =
\* cache.lock().unwrap().cache.get(..) { return Ok(..) }.  The guard is a
\* temporary of the statement: it is dropped when the statement returns or
\* ends, so the mutex is free afterwards.
with_jwt_lookup(c, sub, r) ==
    LET got == LruGet(c, sub) IN
    [hit |-> got.val.some, cache |-> got.cache, lock |-> 0,
     out |-> IF got.val.some THEN Emit(UserContext(got.val.v)) ELSE Pending]

\* with_jwt lines 51-55, run by the holder of the guard:
\* cache.lock().unwrap().cache.put(external_user_id, user)
with_jwt_put(c, sub, user, cap) ==
    [cache |-> LruPut(c, sub, user, cap), lock |-> 0]

InitLock ==
    /\ vin = [jwt |-> MalformedJwt, jwks |-> {}, now |-> Now0]
    /\ vout = NotCalled
    /\ now = Now0
    /\ jwks_remote = {K1}
    /\ jwt_verifier = JwtVerifierNew(FALSE)
    /\ fetches = 0
    /\ user_col = SeedUsers
    /\ next_uuid = FirstUuid
    /\ cache = << >>
    /\ reqs = [r \in Slots |-> Idle]
    /\ served = 0
    /\ emitted = {}
    /\ evicted = {}
    /\ scall = NoCall
    /\ CacheIdle /\ LoginIdle /\ TokenIdle /\ TodoIdle /\ CredIdle /\ CmdIdle
    /\ cache_lock = 0
    /\ lk = [r \in Slots |-> LkIdle]

nonlock == <<vvars, now, jwks_remote, jwt_verifier, fetches, user_col,
             next_uuid, reqs, emitted, evicted, scall, lru_cap, lru_used,
             lru_clock, login, cred_file, gt, mongo, cmd, objects, todo_owner,
             next_todo_id, mcall, http, creds>>

\* with_jwt lines 33-38: verify has returned the claims of a request
LockStart(r, sub) ==
    /\ LkFree(r) /\ \A q \in 1 .. r - 1 : ~LkFree(q)
    /\ served < MaxServed
    /\ served' = served + 1
    /\ lk' = [lk EXCEPT ![r] = LkReq(sub)]
    /\ UNCHANGED <<cache, cache_lock, nonlock>>

\* cache.lock() at line 40 or 52 returns: the mutex was free and the
\* request holds it now.  A request whose lock() finds the mutex held
\* stays where it is.
LockAcquire(r) ==
    /\ lk[r].pc \in {"lock_get", "lock_put"}
    /\ cache_lock = 0
    /\ cache_lock' = r
    /\ lk' = [lk EXCEPT
         ![r].pc = IF @ = "lock_get" THEN "in_get" ELSE "in_put",
         ![r].overtook = {q \in Slots : lk[q].pc = "get_user"}]
    /\ UNCHANGED <<cache, served, nonlock>>

\* with_jwt lines 40-47: the get under the guard, then the return of the
\* context or the call of store.get_user
LockLookup(r) ==
    /\ lk[r].pc = "in_get"
    /\ LET l == with_jwt_lookup(cache, lk[r].sub, r) IN
       /\ cache' = l.cache
       /\ cache_lock' = l.lock
       /\ lk' = [lk EXCEPT
            ![r].pc = IF l.hit THEN "done" ELSE "get_user",
            ![r].lookup = IF l.hit THEN "hit" ELSE "none",
            ![r].out = l.out]
    /\ UNCHANGED <<served, nonlock>>

\* with_jwt lines 48-63: store.get_user returns
LockGotUser(r, dbok) ==
    /\ lk[r].pc = "get_user"
    /\ LET raw == find_one(user_col, lk[r].sub, dbok)
           result == get_user(user_col, lk[r].sub, dbok)
           found == result.ok /\ result.val.some IN
       lk' = [lk EXCEPT
            ![r].pc = IF found THEN "lock_put" ELSE "done",
            ![r].lookup = IF ~raw.ok THEN "error"
                          ELSE IF raw.val.some THEN "found" ELSE "absent",
            ![r].user = IF found THEN Some(result.val.v) ELSE None,
            ![r].out = IF found THEN Pending ELSE with_jwt_match(result)]
    /\ UNCHANGED <<cache, cache_lock, served, nonlock>>

\* with_jwt lines 51-59: the put under the guard, then the context
LockPut(r) ==
    /\ lk[r].pc = "in_put"
    /\ LET p == with_jwt_put(cache, lk[r].sub, lk[r].user.v,
                             CacheCapacity) IN
       /\ cache' = p.cache
       /\ cache_lock' = p.lock
    /\ lk' = [lk EXCEPT ![r].pc = "done",
                        ![r].out = Emit(UserContext(lk[r].user.v))]
    /\ UNCHANGED <<served, nonlock>>

NextLock ==
    \/ \E r \in Slots, sub \in ExtIds : LockStart(r, sub)
    \/ \E r \in Slots : LockAcquire(r)
    \/ \E r \in Slots : LockLookup(r)
    \/ \E r \in Slots, dbok \in BOOLEAN : LockGotUser(r, dbok)
    \/ \E r \in Slots : LockPut(r)

SpecLock == InitLock /\ [][NextLock]_vars

(***************************************************************************)
(* SpecClient: the commands of the command-line client over the            *)
(* credentials file: login, logout, and get_token before a request.        *)
(***************************************************************************)
\* number of login and logout commands followed
MaxCommands == 3

\* what auth::login returns to the command: an error, or a TokenResponse
\* with an access token, with or without a refresh token
LoginResults ==
    { Err("Device code has expired"),
      Ok(TokenResponse(Some(OpaqueAccessToken), None)),
      Ok(TokenResponse(Some(OpaqueAccessToken), Some("r1"))),
      Ok(TokenResponse(Some(NewAccessToken), Some("r1"))) }

\* save_tokens: clear, the two adds and save on the cred_store of the
\* context
save_tokens(file, data, access_token, refresh_token, homeok, written) ==
    LET d == CredAdd(CredAdd(CredClear(data), "access_token", access_token),
                     "refresh_token", refresh_token) IN
    IF homeok THEN CredSave(file, d, written)
    ELSE [file |-> file, res |-> Err("Home directory not found")]

\* what a command leaves behind: the file, what it printed last and how
\* the process ended
CmdDone(file, printed, exit) ==
    [file |-> file, printed |-> printed, exit |-> exit]

\* commands::login lines 46-67 for the result resp of auth::login
cmd_login(file, data, resp, homeok, written, infook) ==
    IF ~resp.ok THEN CmdDone(file, "Error logging in", "return")
    ELSE IF ~resp.val.access_token.some \/ ~resp.val.refresh_token.some
    THEN CmdDone(file, "panic", "panic")
    ELSE LET s == save_tokens(file, data, resp.val.access_token.v,
                              resp.val.refresh_token.v, homeok, written) IN
         IF ~s.res.ok
         THEN CmdDone(s.file, "Couldn't configure credentials.", "exit1")
         ELSE IF ~infook
         THEN CmdDone(s.file, "Couldn't get user info", "exit1")
         ELSE CmdDone(s.file, "User Info", "return")

\* commands::logout
cmd_logout(file, homeok, removed) ==
    LET d == CredDelete(file, homeok, removed) IN
    IF ~d.res.ok THEN CmdDone(d.file, "No credentials found.", "return")
    ELSE CmdDone(d.file, "Logged out.", "return")

\* the record of a command; logged_out holds from a logout that reported
\* "Logged out." to the next login whose flow succeeds, runs0 is the number
\* of get_token calls made before the command
CmdCalled(n, op, flow, homeok, done, file0, logged_out) ==
    [pc |-> "ready", n |-> n, op |-> op, flow |-> flow, homeok |-> homeok,
     printed |-> done.printed, exit |-> done.exit, file0 |-> file0,
     logged_out |-> logged_out, runs0 |-> gt.runs]

\* the home directory holds no credentials, or those of an earlier login
InitClient ==
    /\ ServerIdle
    /\ CacheIdle /\ LoginIdle /\ TodoIdle /\ CredIdle /\ LockIdle
    /\ cred_file \in
         {NoCredFile,
          CredFile(TRUE, TRUE,
                   CredData(Some(AccessToken("old", 3, TRUE, Some(Now0))),
                            Some("r0")))}
    /\ gt = [TokenNew EXCEPT !.received = cred_file.data.refresh_token]
    /\ cmd = CmdCalled(0, "none", Err("none"), TRUE,
                       CmdDone(cred_file, "", "none"), cred_file, FALSE)

\* the variables the commands leave alone
nonclient == <<vin, vout, now, jwks_remote, jwt_verifier, fetches, user_col,
               next_uuid, cache, reqs, served, emitted, evicted, scall,
               lru_cap, lru_used, lru_clock, login, gt, objects, todo_owner,
               next_todo_id, mcall, mongo, http, creds, cache_lock, lk>>

\* `todo login`: Credentials::new is the cred_store of the context
ClientLogin(resp, homeok, written, infook) ==
    /\ cmd.pc = "ready" /\ cmd.n < MaxCommands
    /\ gt.pc # "refresh"
    /\ LET done == cmd_login(cred_file, NoCredData, resp, homeok, written,
                             infook) IN
       /\ cred_file' = done.file
       /\ cmd' = CmdCalled(cmd.n + 1, "login", resp, homeok, done, cred_file,
                           IF resp.ok THEN FALSE ELSE cmd.logged_out)
    /\ UNCHANGED nonclient

\* `todo logout`
ClientLogout(homeok, removed) ==
    /\ cmd.pc = "ready" /\ cmd.n < MaxCommands
    /\ gt.pc # "refresh"
    /\ LET done == cmd_logout(cred_file, homeok, removed) IN
       /\ cred_file' = done.file
       /\ cmd' = CmdCalled(cmd.n + 1, "logout", Err("none"), homeok, done,
                           cred_file,
                           done.printed = "Logged out." \/ cmd.logged_out)
    /\ UNCHANGED nonclient

NextClient ==
    \/ \E resp \in LoginResults, homeok \in BOOLEAN,
          written \in WriteOutcomes, infook \in BOOLEAN :
          ClientLogin(resp, homeok, written, infook)
    \/ \E homeok \in BOOLEAN, removed \in BOOLEAN :
          ClientLogout(homeok, removed)
    \/ \E homeok \in BOOLEAN : GetTokenCalled(homeok)
    \/ \E resp \in RefreshResults, written \in WriteOutcomes :
          GetTokenRefreshed(resp, written)

SpecClient == InitClient /\ [][NextClient]_vars

(***************************************************************************)
(* Claims.                                                                 *)
(***************************************************************************)
WithJwt(r) == reqs[r].kind = "with_jwt"
UserInfo(r) == reqs[r].kind = "user_info"
Finished(r) == reqs[r].pc = "done"

\* C1: with caching enabled, any number of verify calls against the same
\* domain makes at most one GET of the discovery endpoint in total.
C1_AtMostOneFetch == jwt_verifier.use_cache => fetches <= 1

\* C2: a request whose token's kid is not in the key set forces one refetch
\* and verifies a second time before it fails with the unknown-key error, so
\* such a request has run verify_jwt exactly twice and fetched once or twice.
C2_OneRefetchThenFail ==
    \A r \in Slots :
        (WithJwt(r) /\ Finished(r) /\ reqs[r].verr = "jwk not found")
            => (reqs[r].nverify = 2 /\ reqs[r].nfetch \in 1 .. 2)

VerifyCalled == vout.ok \/ vout.err # "not called"
VKey == JwkFind(vin.jwks, vin.jwt.kid)
\* the signature of the token was made, with the header's algorithm, by the
\* holder of the key the kid names
VSignedByKey ==
    /\ vin.jwt.wellformed
    /\ VKey.some
    /\ vin.jwt.signedBy = VKey.v.material
    /\ AlgFamily(vin.jwt.alg) = VKey.v.kty
VAudienceOk == RequiredAud \in vin.jwt.aud

VOtherwiseValid == VSignedByKey /\ vin.jwt.alg = "RS256" /\ VAudienceOk
VExpired == ~vout.ok /\ vout.err = "ExpiredSignature"

ServedKeySets == {{K1}, {K2}}

Failed(r) == WithJwt(r) /\ Finished(r) /\ reqs[r].out.tag = "reject"

\* C6: every failure of the filter, whatever its kind, is the rejection
\* InvalidToken, which return_error answers with 401 and "Invalid token";
\* any two failed requests get the same reply.
C6_UniformRejection ==
    /\ \A r \in Slots :
         (WithJwt(r) /\ Finished(r)) => reqs[r].out.tag \in {"ctx", "reject"}
    /\ \A r \in Slots :
         Failed(r) =>
            /\ reqs[r].out.error = "InvalidToken"
            /\ return_error(reqs[r].out.error) =
                  [code |-> 401, message |-> "Invalid token"]
    /\ \A r1, r2 \in Slots :
         (Failed(r1) /\ Failed(r2)) =>
            return_error(reqs[r1].out.error) = return_error(reqs[r2].out.error)

\* a bad signature and an unknown key, both answered
C6_Witness ==
    \E r1, r2 \in Slots :
        /\ Failed(r1) /\ reqs[r1].verr = "InvalidSignature"
        /\ Failed(r2) /\ reqs[r2].verr = "jwk not found"

\* C7: two resolutions of the same external id emit the same UserContext,
\* whatever was resolved and evicted in between.
C7_SameContextForSameId ==
    \A a, b \in emitted : a.ext = b.ext => a.ctx = b.ctx

\* e1 resolved, evicted by e2, resolved again from the store
C7_Witness ==
    /\ "e1" \in evicted
    /\ "e1" \in LruKeys(cache)
    /\ \E r \in Slots :
          /\ WithJwt(r) /\ reqs[r].out.tag = "ctx" /\ reqs[r].sub = "e1"
          /\ reqs[r].lookup = "found"
    /\ \E a \in emitted : a.ext = "e1"

\* C8: a user_info lookup of an external id that the Users collection does
\* not hold reaches the provisioning branch (fetch_user_info, create_user).
C8_AbsentIdReachesProvisioning ==
    \A r \in Slots :
        (UserInfo(r) /\ reqs[r].lookup = "absent") => reqs[r].provisioning

\* C9: the step in which a store lookup fails with an error ends the
\* request with a rejection and changes neither the Users collection nor
\* the identity cache; such a request has never called create_user.
C9_StoreErrorNeverProvisions ==
    [][\A r \in Slots :
          (reqs[r].pc = "get_user" /\ reqs'[r].pc # "get_user"
             /\ reqs'[r].lookup = "error")
            => /\ reqs'[r].pc = "done"
               /\ reqs'[r].out.tag = "reject"
               /\ user_col' = user_col
               /\ cache' = cache
               /\ (reqs'[r].kind = "user_info" => ~reqs'[r].created)]_vars

C9_Witness ==
    \E r1, r2 \in Slots :
        /\ WithJwt(r1) /\ reqs[r1].lookup = "error" /\ Finished(r1)
        /\ UserInfo(r2) /\ reqs[r2].lookup = "error" /\ Finished(r2)

\* C10: the Users collection never holds two UserRecords with the same
\* external id.
C10_OneRecordPerExternalId ==
    \A i, j \in 1 .. Len(user_col) :
        user_col[i].external_id = user_col[j].external_id => i = j

\* C11: right after create_user(externalId, name, email) has succeeded,
\* get_user(externalId) returns the very record create_user returned: the
\* same externalId, name, email, internal id and tenant id.
C11_CreatedUserIsRetrievable ==
    (scall.op = "create_user" /\ scall.res.ok)
        => get_user(user_col, scall.ext, TRUE) = Ok(Some(scall.res.val))

\* the entries the cache holds, whatever their order
LruEntries(c) == { c[i] : i \in 1 .. Len(c) }
\* the Users collection holds this record
Persisted(u) == \E j \in 1 .. Len(user_col) : user_col[j] = u

\* C12: every entry of the identity cache maps an external id to a record
\* the Users collection already holds under that id; the entries change
\* only in the step in which a request ends with the context of a record
\* it has just read from the store, and then only by that record (and an
\* eviction): a failed or rejected resolution leaves them as they were.
C12_CacheHoldsPersistedUsers ==
    /\ [](\A i \in 1 .. Len(cache) :
            /\ cache[i].key = cache[i].user.external_id
            /\ Persisted(cache[i].user))
    /\ [][LruEntries(cache') # LruEntries(cache) =>
            \E r \in Slots :
               /\ reqs'[r] # reqs[r]
               /\ reqs'[r].kind = "with_jwt"
               /\ reqs'[r].out.tag = "ctx"
               /\ reqs'[r].lookup = "found"
               /\ \E u \in LruEntries(cache') :
                     /\ u.key = reqs'[r].sub
                     /\ Persisted(u.user)
                     /\ LruEntries(cache') \subseteq
                           (LruEntries(cache) \cup {u})]_vars

\* the cache holds a user while a request that missed it has been rejected
\* and another has been answered from the store
C12_Witness ==
    /\ Len(cache) > 0
    /\ \E r1, r2 \in Slots :
          /\ Failed(r1) /\ reqs[r1].lookup \in {"absent", "error"}
          /\ WithJwt(r2) /\ Finished(r2) /\ reqs[r2].lookup = "found"

\* C13: the cache never holds more entries than its capacity, and it loses
\* an entry only to make room for a new key when it is full; the entry it
\* loses is then the one whose last use, by a get that hit it or by a put,
\* is the oldest.
C13_BoundedLruEviction ==
    /\ [](Len(cache) <= lru_cap /\ Cardinality(LruKeys(cache)) = Len(cache))
    /\ [][\A k \in LruKeys(cache) \ LruKeys(cache') :
             /\ Len(cache) = lru_cap
             /\ Cardinality(LruKeys(cache') \ LruKeys(cache)) = 1
             /\ LruKeys(cache) \ LruKeys(cache') = {k}
             /\ \A q \in LruKeys(cache) : lru_used[k] <= lru_used[q]]_vars

\* a cache of two entries: e1 and e2 were put, e1 was used again, and the
\* put of e3 has evicted e2
C13_Witness ==
    /\ lru_cap = 2
    /\ evicted = {"e2"}
    /\ LruKeys(cache) = {"e1", "e3"}
    /\ lru_used = [k \in ExtIds |->
                     IF k = "e1" THEN 3 ELSE IF k = "e2" THEN 2 ELSE 4]

\* the step in which a poll of the token endpoint is answered
PollAnswered == login.pc = "poll" /\ login'.pc # "poll"

\* C14: when n polls have been answered without access_token and the next
\* one is answered with access_token = t, login ends at once with Ok of
\* that response, after n + 1 polls and n sleeps, each of at least the
\* session's interval; an answer without access_token only makes login
\* sleep, it is never an error.
C14_PendingThenToken ==
    /\ [][PollAnswered =>
            /\ (login'.last.ok /\ login'.last.val.access_token.some) =>
                  /\ login'.pc = "done"
                  /\ login'.out = login'.last
                  /\ login'.polls = login.pending + 1
                  /\ login'.waits = login.pending
            /\ (login'.last.ok /\ ~login'.last.val.access_token.some) =>
                  /\ login'.pc = "sleep"
                  /\ login'.out = login.out
                  /\ login'.pending = login.pending + 1]_vars
    /\ [][(login.pc = "sleep" /\ login'.pc # "sleep") =>
            /\ login'.pc = "loop"
            /\ login'.elapsed >= login.elapsed + login.interval]_vars
    /\ [](login.pc \in {"loop", "poll", "sleep"} =>
            (login.waits = login.pending /\ ~login.out.ok
                /\ login.out.err = "none"))

\* three answers without access_token, then "abc", polled every second
C14_Witness ==
    /\ login.pc = "done" /\ login.out.ok
    /\ login.out.val.access_token = Some("abc")
    /\ login.pending = 3 /\ login.polls = 4 /\ login.waits = 3
    /\ login.interval = 1

\* the step in which login sends a poll to the token endpoint
PollIssued == login'.polls = login.polls + 1

\* C15 as stated: whenever login has ended without success at or after the
\* instant at which the time elapsed reached expires_in, it has ended with
\* the 'Device code has expired' error.
C15_ExpiryAlwaysReported ==
    (login.pc = "done" /\ login.session /\ ~login.out.ok
        /\ login.elapsed >= login.expires_in)
        => login.out.err = DeviceCodeExpired

\* C15: a poll is sent only while the time elapsed is less than expires_in
\* (none at all when expires_in = 0); when login reaches the head of its
\* loop with the time elapsed at or past expires_in it ends with the
\* 'Device code has expired' error without polling, and it does nothing
\* after it has ended. A poll still under way at that instant decides the
\* result if it is answered with a token or fails in transport.
C15_ExpiryStopsPolling ==
    /\ [][PollIssued => login.elapsed < login.expires_in]_vars
    /\ [][(login.pc = "loop" /\ login'.pc # "loop"
             /\ login.elapsed >= login.expires_in) =>
            /\ login'.pc = "done"
            /\ login'.out = Err(DeviceCodeExpired)
            /\ login'.polls = login.polls]_vars
    /\ [][login.pc = "done" => login' = login]_vars
    /\ []((login.pc = "done" /\ ~login.out.ok
             /\ login.out.err = DeviceCodeExpired) =>
            (login.session /\ login.elapsed >= login.expires_in))
    /\ []((login.session /\ login.expires_in = 0) => login.polls = 0)

\* the device code expired during the second sleep
C15_Witness ==
    /\ login.pc = "done" /\ ~login.out.ok
    /\ login.out.err = DeviceCodeExpired
    /\ login.polls = 2 /\ login.waits = 2
    /\ login.elapsed >= login.expires_in

\* C16: a poll that fails in transport (the send, or the decoding of the
\* body) ends login in that very step with that error, expired or not:
\* no sleep is started, no poll is sent afterwards, nothing changes any
\* more.
C16_TransportErrorIsTerminal ==
    /\ [][(PollAnswered /\ ~login'.last.ok) =>
            /\ login'.pc = "done"
            /\ login'.out = login'.last
            /\ login'.out.err \in {"send", "decode"}
            /\ login'.waits = login.waits
            /\ login'.polls = login.polls]_vars
    /\ [][(login.pc = "done" /\ ~login.out.ok) =>
            (login' = login /\ ~PollIssued)]_vars

\* the second poll failed in transport before the device code expired
C16_Witness ==
    /\ login.pc = "done" /\ ~login.out.ok /\ login.out.err = "decode"
    /\ login.polls = 2 /\ login.waits = 1
    /\ login.elapsed < login.expires_in

\* the credentials get_token loaded hold both tokens
PairLoaded ==
    gt.load_ok /\ gt.loaded.access_token.some /\ gt.loaded.refresh_token.some
\* ... and the access token decodes to an exp before the time of the call
ExpiredPairLoaded ==
    /\ gt.pc \in {"refresh", "done"}
    /\ PairLoaded
    /\ decode_claims_without_verification(gt.loaded.access_token.v).ok
    /\ gt.loaded.access_token.v.exp.v < gt.now0
\* the token endpoint has answered the refresh with a new access token
RefreshGaveAccessToken ==
    gt.pc = "done" /\ gt.resp.ok /\ gt.resp.val.access_token.some

TokenCalled == gt'.runs = gt.runs + 1

\* C18: when the loaded credentials hold both tokens and the access token
\* decodes to an exp that is not before the current time, the call of
\* get_token returns that very access token in the same step, without a
\* call of the token endpoint and without a write: the file is unchanged.
C18_FreshTokenReturnedUntouched ==
    [][(TokenCalled
          /\ gt'.load_ok
          /\ gt'.loaded.access_token.some /\ gt'.loaded.refresh_token.some
          /\ decode_claims_without_verification(
                 gt'.loaded.access_token.v).ok
          /\ gt'.loaded.access_token.v.exp.v >= now) =>
          /\ gt'.pc = "done"
          /\ gt'.out = Ok(Some(cred_file.data.access_token.v))
          /\ gt'.calls = 0
          /\ gt'.writes = 0
          /\ ~gt'.panicked
          /\ cred_file' = cred_file]_vars

\* a stored token that expires this very second has been returned
C18_Witness ==
    /\ gt.pc = "done" /\ PairLoaded
    /\ decode_claims_without_verification(gt.loaded.access_token.v).ok
    /\ gt.loaded.access_token.v.exp.v = gt.now0
    /\ gt.out = Ok(Some(gt.loaded.access_token.v))
    /\ gt.calls = 0 /\ cred_file = gt.file0

\* C19: when the loaded credentials lack the access token or the refresh
\* token (no file at all included), get_token returns None in the step of
\* the call, without a call of the token endpoint, and the file is
\* unchanged.
C19_NoPairReturnsNone ==
    [][(TokenCalled /\ gt'.load_ok
          /\ (~gt'.loaded.access_token.some
                \/ ~gt'.loaded.refresh_token.some)) =>
          /\ gt'.pc = "done"
          /\ gt'.out = Ok(None)
          /\ gt'.calls = 0
          /\ gt'.writes = 0
          /\ cred_file' = cred_file]_vars

\* None was returned for a file that holds an access token but no refresh
\* token
C19_Witness ==
    /\ gt.pc = "done" /\ gt.out = Ok(None) /\ gt.load_ok
    /\ cred_file.exists
    /\ gt.loaded.access_token.some /\ ~gt.loaded.refresh_token.some
    /\ gt.calls = 0

\* the refresh has failed: in transport, in decoding, or by a response
\* that does not carry both new tokens
RefreshFailed ==
    /\ gt.pc = "done" /\ gt.arm = "refresh"
    /\ \/ ~gt.resp.ok
       \/ ~gt.resp.val.access_token.some
       \/ ~gt.resp.val.refresh_token.some

\* C20: after a failed refresh, get_token has returned an error value (it
\* has not panicked), has made one refresh call and has left the
\* credentials file as it found it.
C20_FailedRefreshReturnsError ==
    RefreshFailed =>
        /\ ~gt.panicked
        /\ ~gt.out.ok
        /\ gt.out.err # "none"
        /\ gt.calls = 1
        /\ cred_file = gt.file0


(***************************************************************************)
(* Claims on the in-memory todo store.                                     *)
(***************************************************************************)
MemCalled(op) == mcall.op = op
\* the todos the store holds that ctx added
AddedBy(ctx) ==
    {objects[i] : i \in {j \in DOMAIN objects : todo_owner[j] = ctx}}

\* C21: whatever adds, updates and deletes the users have made, get_todos
\* returns exactly the stored todos whose tenant id and user id both equal
\* the caller's, and these are the todos the caller added and nobody deleted.
C21_GetTodosReturnsOwn ==
    MemCalled("get_todos") =>
        /\ mcall.res.ok
        /\ mcall.res.val =
             {t \in MapValues(objects) :
                t.tenant_id = mcall.ctx.tenant_id
                /\ t.user_id = mcall.ctx.user_id}
        /\ mcall.res.val = AddedBy(mcall.ctx)

\* a user lists one todo of their own while the store also holds a todo of
\* another user of the same tenant
C21_Witness ==
    /\ MemCalled("get_todos")
    /\ Cardinality(mcall.res.val) = 1
    /\ \E i \in DOMAIN objects :
          /\ objects[i].tenant_id = mcall.ctx.tenant_id
          /\ objects[i].user_id # mcall.ctx.user_id


\* the caller of the call is the one who added the todo it names, and the
\* todo is still stored
OwnedBy(ctx, id) == id \in DOMAIN objects /\ todo_owner[id] = ctx
\* the store after the step holds what it held before, less the todo id
RemovedOnly(id) ==
    /\ DOMAIN objects' = DOMAIN objects \ {id}
    /\ \A j \in DOMAIN objects' : objects'[j] = objects[j]

\* C22: delete_todo called by anyone but the owner of the todo (or for an id
\* the store does not hold) returns Err(NotFound) and leaves the store as
\* it was; called by the owner it removes that todo and no other and returns
\* the removed todo.
C22_DeleteOnlyByOwner ==
    [][mcall'.op = "delete_todo" =>
         IF OwnedBy(mcall'.ctx, mcall'.id)
         THEN /\ mcall'.res = Ok(Some(objects[mcall'.id]))
              /\ RemovedOnly(mcall'.id)
         ELSE /\ mcall'.res = Err("NotFound")
              /\ objects' = objects]_vars

\* a user of the same tenant has just been refused the deletion of a todo
\* that is still stored, after its owner deleted another one
C22_Witness ==
    /\ MemCalled("delete_todo")
    /\ mcall.res = Err("NotFound")
    /\ mcall.id \in DOMAIN objects
    /\ objects[mcall.id].tenant_id = mcall.ctx.tenant_id
    /\ objects[mcall.id].user_id # mcall.ctx.user_id
    /\ \E i \in DOMAIN todo_owner : i \notin DOMAIN objects

\* C23: update_todo called by anyone but the owner of a stored todo returns
\* Err(Unauthorized) and changes neither the task nor the completed flag of
\* that todo, nor any other todo.
C23_UpdateByNonOwnerRefused ==
    [][(/\ mcall'.op = "update_todo"
        /\ mcall'.id \in DOMAIN objects
        /\ todo_owner[mcall'.id] # mcall'.ctx) =>
         /\ mcall'.res = Err("Unauthorized")
         /\ objects' = objects]_vars

\* a user of the same tenant has just been refused an update that would
\* have changed both fields of the todo
C23_Witness ==
    /\ MemCalled("update_todo")
    /\ mcall.res = Err("Unauthorized")
    /\ objects[mcall.id].tenant_id = mcall.ctx.tenant_id
    /\ mcall.arg.task.some
    /\ mcall.arg.task.v # objects[mcall.id].task
    /\ mcall.arg.completed.some
    /\ mcall.arg.completed.v # objects[mcall.id].completed


(***************************************************************************)
(* Claims on the routes.                                                   *)
(***************************************************************************)
Listed == http.last.route = "get_todos" /\ http.last.reply.status = 200

\* C24: through the router, for an authenticated user, every POST /todos
\* answered 201 makes the new todo visible: on a store that started empty,
\* GET /todos lists as many todos as the user was answered 201 for (none of
\* which was deleted); and a todo whose DELETE was answered 204 is never
\* listed again.
C24_CreatedTodosAreListed ==
    (http.pc = "serving" /\ Listed) =>
        /\ http.empty0 =>
             Cardinality(http.last.reply.body)
                = http.created[http.last.auth.val]
        /\ \A todo \in http.last.reply.body : todo.id \notin http.deleted


(***************************************************************************)
(* Claims on the file credential store.                                    *)
(***************************************************************************)
\* the last call was op and the home directory was found
CredDid(op) ==
    creds.pc = "held" /\ creds.last.op = op /\ creds.last.homeok

\* C25: with a home directory, load when no credentials file exists gives
\* an empty key set; a load of the file a save has written gives exactly
\* the key/value pairs that were held at the save (keys_present holds for
\* exactly their keys); delete succeeds when no file exists, and when it
\* succeeds no file exists afterwards.
C25_SaveLoadDeleteRoundTrip ==
    /\ CredDid("load") =>
         /\ ~creds.before.exists =>
              /\ creds.last.res = Ok(NoCredData)
              /\ \A key \in CredKeys : ~keys_present(creds.data, {key})
         /\ creds.saved.some =>
              /\ creds.last.res = Ok(creds.saved.v)
              /\ creds.data = creds.saved.v
              /\ \A key \in CredKeys :
                    keys_present(creds.data, {key})
                       <=> creds.saved.v[key].some
              /\ \A key \in CredKeys :
                    CredGet(creds.data, key) = creds.saved.v[key]
    /\ CredDid("delete") =>
         /\ ~creds.before.exists => creds.last.res = Ok("unit")
         /\ creds.last.res.ok => ~cred_file.exists

\* the file that is loaded holds two keys a save has written, one of them
\* added since the start
C25_Witness ==
    /\ CredDid("load")
    /\ creds.last.res.ok
    /\ creds.saved.some
    /\ keys_present(creds.saved.v, CredKeys)
    /\ cred_file.exists


(***************************************************************************)
(* Claims on concurrent requests.                                          *)
(***************************************************************************)
\* the requests whose verify call is waiting for the discovery document
Fetching == {r \in Slots : WithJwt(r) /\ reqs[r].pc = "fetch_jwt"}

\* C26: with caching enabled, of the verify calls that start while no key
\* set is cached at most one is fetching the discovery document at any
\* time; the others take the key set that one stores.
C26_NoConcurrentRefill ==
    jwt_verifier.use_cache => Cardinality(Fetching) <= 1


(***************************************************************************)
(* Claims on the order of the checks of verify_jwt.                        *)
(***************************************************************************)
\* the kinds of failure the callers of verify_jwt tell apart
ErrorClass(err) ==
    CASE err \in {"InvalidToken", "kid not found in jwt header"} ->
             "MalformedToken"
      [] err = "jwk not found" -> "UnknownKey"
      [] err \in {"InvalidAlgorithm", "InvalidSignature"} -> "BadSignature"
      [] err = "InvalidAudience" -> "AudienceMismatch"
      [] err = "ExpiredSignature" -> "Expired"
      [] OTHER -> "other"

\* the checks of the token in vin, each TRUE when it fails
VMalformed == ~vin.jwt.wellformed \/ vin.jwt.kid = NoKid
VUnknownKey == ~VKey.some
VBadSignature ==
    \/ vin.jwt.alg # "RS256"
    \/ VKey.v.kty # AlgFamily("RS256")
    \/ vin.jwt.signedBy # VKey.v.material
VAudienceBad == RequiredAud \notin vin.jwt.aud
VPastExpiry == vin.jwt.exp < vin.now - Leeway

\* the outcome of the call is the failure class, or success for "none"
VOutcome(class) ==
    IF class = "none" THEN vout.ok
    ELSE ~vout.ok /\ ErrorClass(vout.err) = class

\* C27 as stated: verify_jwt reports the first failing check in the order
\* header and kid, key lookup, signature, audience, expiry; so a correctly
\* signed token with a wrong audience and a past exp fails with the
\* audience error.
C27_AudienceBeforeExpiry ==
    VerifyCalled =>
        VOutcome(IF VMalformed THEN "MalformedToken"
                 ELSE IF VUnknownKey THEN "UnknownKey"
                 ELSE IF VBadSignature THEN "BadSignature"
                 ELSE IF VAudienceBad THEN "AudienceMismatch"
                 ELSE IF VPastExpiry THEN "Expired"
                 ELSE "none")

\* C27, amended: verify_jwt reports the first failing check in the order
\* header and kid, key lookup, algorithm and signature, expiry, audience;
\* a correctly signed token with a wrong audience and a past exp fails with
\* the expiry error, and a token without kid fails as malformed whatever the
\* key set holds.
C27_ExpiryBeforeAudience ==
    VerifyCalled =>
        /\ VOutcome(IF VMalformed THEN "MalformedToken"
                    ELSE IF VUnknownKey THEN "UnknownKey"
                    ELSE IF VBadSignature THEN "BadSignature"
                    ELSE IF VPastExpiry THEN "Expired"
                    ELSE IF VAudienceBad THEN "AudienceMismatch"
                    ELSE "none")
        /\ (vin.jwt.wellformed /\ vin.jwt.kid = NoKid) =>
              (~vout.ok /\ vout.err = "kid not found in jwt header")

\* a token signed with RS256 by a key of the key set, with a wrong audience
\* and an exp past the leeway, has been refused as expired
C27_Witness ==
    /\ VerifyCalled
    /\ ~VMalformed /\ ~VUnknownKey /\ ~VBadSignature
    /\ VAudienceBad /\ VPastExpiry
    /\ ~vout.ok /\ vout.err = "ExpiredSignature"


(***************************************************************************)
(* Claims on the identity cache in the resolution path.                    *)
(***************************************************************************)
\* the step takes request r through verify_jwt and the cache lookup
Resolving(r) ==
    /\ reqs'[r] # reqs[r]
    /\ reqs[r].pc # "get_user"
    /\ reqs'[r].kind = "with_jwt"
    /\ reqs'[r].nverify > 0
    /\ reqs'[r].verr = ""
\* the step is the return of store.get_user to request r
Queried(r) ==
    /\ reqs'[r] # reqs[r]
    /\ reqs[r].kind = "with_jwt"
    /\ reqs[r].pc = "get_user"
\* the user the cache holds under key k
CachedUser(c, k) == (CHOOSE e \in LruEntries(c) : e.key = k).user

\* C28: a resolution whose external id is in the identity cache ends in the
\* step of the lookup with the UserContext of the cached record, without a
\* query of the store (the store is queried only by a request that missed);
\* a query that finds the user leaves the record in the cache under that id,
\* so that the next resolution of the id, unless the entry was evicted, is
\* such a hit.
C28_HitSkipsStore ==
    /\ [][\A r \in Slots :
            Resolving(r) =>
               IF reqs'[r].sub \in LruKeys(cache)
               THEN /\ reqs'[r].pc = "done"
                    /\ reqs'[r].lookup = "hit"
                    /\ reqs'[r].out =
                         Emit(UserContext(CachedUser(cache, reqs'[r].sub)))
                    /\ UNCHANGED <<user_col, scall>>
               ELSE /\ reqs'[r].pc = "get_user"
                    /\ reqs'[r].lookup = "none"]_vars
    /\ [][\A r \in Slots :
            Queried(r) =>
               /\ reqs[r].lookup = "none"
               /\ reqs'[r].lookup = "found" =>
                    /\ reqs'[r].sub \in LruKeys(cache')
                    /\ reqs'[r].out =
                         Emit(UserContext(CachedUser(cache',
                                                     reqs'[r].sub)))]_vars

\* an id was found in the store by one request and then served from the
\* cache to the next
C28_Witness ==
    \E r1, r2 \in Slots :
        /\ r1 # r2
        /\ WithJwt(r1) /\ Finished(r1) /\ reqs[r1].lookup = "found"
        /\ WithJwt(r2) /\ Finished(r2) /\ reqs[r2].lookup = "hit"
        /\ reqs[r1].sub = reqs[r2].sub
        /\ reqs[r1].out = reqs[r2].out
        /\ reqs[r2].sub \in LruKeys(cache)


(***************************************************************************)
(* Claims on the UserCache mutex.                                          *)
(***************************************************************************)
\* the requests waiting for store.get_user, the requests using the cache
\* under the guard, the requests whose cache.lock() has not returned
AwaitingStore == {r \in Slots : lk[r].pc = "get_user"}
ReadingCache == {r \in Slots : lk[r].pc = "in_get"}
WritingCache == {r \in Slots : lk[r].pc = "in_put"}
WaitingToRead == {r \in Slots : lk[r].pc = "lock_get"}
IsCached(r) == lk[r].sub \in LruKeys(cache)

\* C29: no request holds the cache mutex while its store lookup is in
\* flight; the mutex is held only by a request that is inside the get or
\* the put, so a request for a cached identity is not kept from the lock by
\* a request that awaits the store for another identity.
C29_NoLockAcrossStoreLookup ==
    /\ \A r \in AwaitingStore : cache_lock # r
    /\ cache_lock # 0 => cache_lock \in ReadingCache \cup WritingCache
    /\ (AwaitingStore # {} /\ ReadingCache \cup WritingCache = {})
          => cache_lock = 0

\* a request for a cached id took the lock and got its context while a
\* request for another id was, and still is, awaiting the store
C29_Witness ==
    \E r1, r2 \in Slots :
        /\ r1 \in AwaitingStore
        /\ lk[r2].pc = "done" /\ lk[r2].lookup = "hit"
        /\ r1 \in lk[r2].overtook
        /\ lk[r2].sub # lk[r1].sub
        /\ lk[r2].out.tag = "ctx"

\* C30: lookups of cached ids exclude only inserts, not each other: a
\* request whose id is cached is never kept waiting for the mutex by another
\* request that is inside the lookup of a cached id.
C30_ReadersDoNotExcludeReaders ==
    \A r \in WaitingToRead, q \in ReadingCache :
        ~(cache_lock = q /\ IsCached(r) /\ IsCached(q))


(***************************************************************************)
(* Claims on the end of the device-authorization login.                    *)
(***************************************************************************)
LoginDone == login.pc = "done"
\* the three ways login returns
LoginSucceeded == LoginDone /\ login.out.ok /\ login.out.val.access_token.some
LoginExpired == LoginDone /\ login.out = Err(DeviceCodeExpired)
LoginTransportError ==
    LoginDone /\ ~login.out.ok /\ login.out.err \in {"send", "decode"}

\* C31: every run of login, whatever expires_in, interval and the answers
\* of the token endpoint, eventually returns; it returns in exactly one of
\* the three ways (token, device code expired, transport error), nothing
\* happens after the return, and the k-th poll is sent only if k - 1
\* intervals fit before the expiry of the device code.
C31_LoginTerminatesOnce ==
    /\ <>LoginDone
    /\ [](LoginDone =>
            \/ LoginSucceeded /\ ~LoginExpired /\ ~LoginTransportError
            \/ ~LoginSucceeded /\ LoginExpired /\ ~LoginTransportError
            \/ ~LoginSucceeded /\ ~LoginExpired /\ LoginTransportError)
    /\ [](login.polls >= 1 =>
            (login.polls - 1) * login.interval < login.expires_in)
    /\ [][LoginDone => login' = login]_vars

\* a run that polled as often as a device code of four seconds and an
\* interval of one second allow, and then found the code expired
C31_Witness ==
    /\ LoginExpired
    /\ login.interval = 1
    /\ login.polls = login.expires_in
    /\ login.polls >= 2


\* C32: when the token endpoint answers a poll with the user's denial, the
\* flow ends at that poll in the Denied state: it has returned, with
\* neither a token nor the expiry of the device code, and has polled no
\* more.
C32_DenialEndsFlow ==
    login.denied_at > 0 =>
        /\ LoginDone
        /\ ~LoginSucceeded /\ ~LoginExpired
        /\ login.polls = login.denied_at


\* the step is the device code request
Requested == login.pc = "idle" /\ login'.pc # "idle"

\* C33: a failed device code request (error of send or of the decoding of
\* the answer) makes login return that error with no verification URI
\* shown, no browser opened and no poll sent, then or later; after a
\* successful request the URI is shown and the flow enters the polling
\* loop whether or not the browser could be opened.
C33_RequestFailureIsQuiet ==
    /\ []((login.pc # "idle" /\ ~login.session) =>
            /\ LoginDone /\ LoginTransportError
            /\ ~login.shown /\ login.browser = "none"
            /\ login.polls = 0)
    /\ [][Requested =>
            (login'.session =>
               /\ login'.pc = "loop"
               /\ login'.shown
               /\ login'.browser \in {"opened", "failed"})]_vars
    /\ [](login.browser = "failed" =>
            (LoginDone =>
               LoginSucceeded \/ LoginExpired \/ LoginTransportError))

\* the browser could not be opened and the flow has polled all the same
C33_Witness ==
    /\ login.session
    /\ login.browser = "failed"
    /\ login.polls >= 1
    /\ LoginSucceeded


\* the stored access token of the call that has just been made
CalledWith == gt'.loaded.access_token.v
\* the step is a call of get_token that loaded both tokens
CalledWithPair ==
    /\ TokenCalled /\ gt'.load_ok
    /\ gt'.loaded.access_token.some /\ gt'.loaded.refresh_token.some

\* C34: a call of get_token that loads both tokens sends the refresh call
\* exactly when the access token cannot be decoded (not three parts, a
\* payload that is not base64url, a payload without an integer exp) or
\* decodes to an exp before the current time; a decodable token whose exp
\* is the current time or later is returned as it is. The refresh of an
\* undecodable token sends the stored refresh token like any other.
C34_UndecodableCountsAsExpired ==
    [][CalledWithPair =>
         LET claims == decode_claims_without_verification(CalledWith)
             expired == ~claims.ok \/ claims.val.exp < now IN
         /\ (CalledWith.parts # 3 \/ ~CalledWith.b64 \/ ~CalledWith.exp.some)
               => ~claims.ok
         /\ expired <=> (gt'.pc = "refresh" /\ gt'.calls = 1)
         /\ ~expired <=> (gt'.pc = "done" /\ gt'.calls = 0
                            /\ gt'.out = Ok(Some(CalledWith)))]_vars

\* a token whose payload has no exp has been refreshed and replaced
C34_Witness ==
    /\ gt.pc = "done" /\ PairLoaded
    /\ gt.loaded.access_token.v.id = "noexp"
    /\ gt.calls = 1 /\ gt.saved
    /\ gt.out = Ok(Some(NewAccessToken))


\* the call has returned the access token of the refresh response
ReturnedRefreshed ==
    /\ gt.pc = "done" /\ gt.arm = "refresh"
    /\ gt.resp.ok /\ gt.resp.val.access_token.some
    /\ gt.out = Ok(Some(gt.resp.val.access_token.v))

FetchFailed(r) == WithJwt(r) /\ reqs[r].verr = "fetch"
\* the step in which request r arrives with a bearer token and calls verify
VerifyStarted(r) ==
    /\ Free(reqs, r) /\ ~Free(reqs', r)
    /\ WithJwt(r)'

\* C36: a verify call whose fetch of the key set fails has made one GET,
\* has not run verify_jwt, is answered with the rejection of that error and
\* leaves no key set, empty or other, in its verifier or in the verifier
\* of the filter; a verifier holds a key set only after a fetch of its own
\* that succeeded; and a verify call that starts while the verifier of the
\* filter holds no key set goes to the discovery endpoint again.
C36_FailedFetchLeavesNoKeySet ==
    /\ [](\A r \in Slots :
            FetchFailed(r) =>
              /\ Finished(r)
              /\ reqs[r].out = Reject(with_jwt_verify_rejection("fetch"))
              /\ reqs[r].nfetch = 1
              /\ reqs[r].nverify = 0
              /\ ~reqs[r].verifier.jwks_cache.some
              /\ ~jwt_verifier.jwks_cache.some)
    /\ [](\A r \in Slots :
            (WithJwt(r) /\ reqs[r].verifier.jwks_cache.some) =>
              (reqs[r].nfetch = 1 /\ ~FetchFailed(r)))
    /\ [][\A r \in Slots :
            (VerifyStarted(r) /\ ~jwt_verifier.jwks_cache.some) =>
              reqs'[r].pc = "fetch_jwt"]_vars

\* with caching on, one request has failed in the fetch and a later one
\* has fetched again and been let through
C36_Witness ==
    /\ jwt_verifier.use_cache
    /\ FetchFailed(1)
    /\ WithJwt(2) /\ Finished(2) /\ reqs[2].nfetch = 1
    /\ reqs[2].verifier.jwks_cache.some
    /\ reqs[2].out.tag = "ctx"


\* C37: whatever calls the users have made so far on the two stores, the
\* last call has returned Ok from both or the same error from both.
C37_BackendsAgree ==
    mcall.op # "none" =>
        /\ mongo.res.ok = mcall.res.ok
        /\ ~mcall.res.ok => mongo.res.err = mcall.res.err


\* todo new is todo old with the fields of the request body arg written
UpdatedBy(old, new, arg) ==
    /\ new.id = old.id
    /\ new.tenant_id = old.tenant_id
    /\ new.user_id = old.user_id
    /\ new.task = IF arg.task.some THEN arg.task.v ELSE old.task
    /\ new.completed = IF arg.completed.some THEN arg.completed.v
                       ELSE old.completed

\* C38: update_todo called by the owner of a stored todo writes the task
\* and the completed flag the request carries into that todo and leaves the
\* field the request does not carry, the id, the tenant id and the user id
\* of it as they were; every other todo stays as it was and none is added
\* or removed. The same holds of the documents of the Todos collection.
C38_UpdateWritesGivenFieldsOnly ==
    [][(mcall'.op = "update_todo" /\ OwnedBy(mcall'.ctx, mcall'.id)) =>
         /\ DOMAIN objects' = DOMAIN objects
         /\ \A j \in DOMAIN objects :
              IF j = mcall'.id
              THEN UpdatedBy(objects[j], objects'[j], mcall'.arg)
              ELSE objects'[j] = objects[j]
         /\ Len(mongo'.todo_col) = Len(mongo.todo_col)
         /\ \A i \in 1 .. Len(mongo.todo_col) :
              IF mongo.todo_col[i].id = mcall'.id
              THEN UpdatedBy(mongo.todo_col[i], mongo'.todo_col[i],
                             mcall'.arg)
              ELSE mongo'.todo_col[i] = mongo.todo_col[i]]_vars

\* the owner has renamed a todo that was done, and it is still done, while
\* another todo is stored
C38_Witness ==
    /\ MemCalled("update_todo")
    /\ mcall.arg = UpdateTodo(Some("b"), None)
    /\ mcall.res.ok /\ mongo.res.ok
    /\ mongo.res.val.v.task = "a" /\ mongo.res.val.v.completed
    /\ objects[mcall.id].task = "b" /\ objects[mcall.id].completed
    /\ Cardinality(DOMAIN objects) = 2


\* the last command was a login whose flow returned a TokenResponse
LoginFlowSucceeded == cmd.op = "login" /\ cmd.flow.ok
\* the last command was a login that did not end well: the flow failed or
\* the process stopped with a panic or with exit(1)
LoginCommandFailed ==
    cmd.op = "login" /\ (~cmd.flow.ok \/ cmd.exit # "return")
\* get_token has not been called since the last command
SinceCommand == gt.runs = cmd.runs0

\* from a logout that reported "Logged out." to the next login whose flow
\* succeeds, a get_token that can load returns None without a refresh call
LoggedOutMeansNone ==
    [][(TokenCalled /\ cmd.logged_out /\ gt'.load_ok) =>
         (gt'.out = Ok(None) /\ gt'.calls = 0)]_vars
\* a logout that finds no credentials file reports "Logged out." and
\* leaves no file
LogoutIsIdempotent ==
    (cmd.op = "logout" /\ cmd.homeok /\ ~cmd.file0.exists) =>
        (cmd.printed = "Logged out." /\ cmd.exit = "return"
           /\ (SinceCommand => ~cred_file.exists))
\* after a login whose flow succeeded the file holds the two tokens of the
\* response
LoginStoresPair ==
    (LoginFlowSucceeded /\ SinceCommand) =>
        cred_file = CredFile(TRUE, TRUE,
                             CredData(cmd.flow.val.access_token,
                                      cmd.flow.val.refresh_token))
\* after a login that failed the file is the one the command found
FailedLoginKeepsFile ==
    (LoginCommandFailed /\ SinceCommand) => cred_file = cmd.file0

\* C39: from a logout on, get_token returns None without a call of the
\* token endpoint until the flow of a login succeeds; logout reports
\* "Logged out." also when there is no credentials file; after a login
\* whose flow succeeded the file holds the access token and the refresh
\* token of the response and nothing else; after a login that failed the
\* file is the one the command found.
C39_LogoutUntilLogin ==
    /\ LoggedOutMeansNone
    /\ []LogoutIsIdempotent
    /\ []LoginStoresPair
    /\ []FailedLoginKeepsFile
====
